---- MODULE Spec2Model ----
(***************************************************************************)
(* Model of scimcp: the SCIM client (scimcp/scim_client.py) and the MCP    *)
(* tool dispatcher (scimcp/mcp_server.py).                                 *)
(*                                                                         *)
(* Strings that the code takes apart (base URL, endpoint, token, DEBUG)    *)
(* are sequences of atoms; the atom "/" is the slash character and every   *)
(* other atom is a slash-free chunk of text.  Python's None is the value   *)
(* None below.  Every call is synchronous, so one action is one whole      *)
(* call; the reply of the HTTP transport is chosen with \E.                *)
(*                                                                         *)
(* Record constructors list their fields in the order in which TLC keeps   *)
(* them (the order in which the names first occur in the module), so that  *)
(* no worker of TLC has to sort a record another worker is reading.        *)
(***************************************************************************)
EXTENDS Integers, Sequences, FiniteSets, TLC

VARIABLES env, client, server_client, call, sent, log, result,
          store, prog, wire

vars == <<env, client, server_client, call, sent, log, result, store, prog, wire>>

----------------------------------------------------------------------------
(* Bounds *)

MaxUrlLen == 3
MaxEndpointLen == 3
MaxCount == 102
MaxIds == 3

----------------------------------------------------------------------------
(* Strings *)

None == <<"<None>">>

Slash == "/"

SeqsUpTo(S, n) == UNION {[1..k -> S] : k \in 0..n}

\* Python truthiness of an Optional[str]
Truthy(s) == s # None /\ s # <<>>

\* a or b
Or(a, b) == IF Truthy(a) THEN a ELSE b

\* removes one trailing ch only
rstrip_once(s, ch) ==
    IF s # <<>> /\ s[Len(s)] = ch THEN SubSeq(s, 1, Len(s) - 1) ELSE s

RECURSIVE rstrip(_, _)
rstrip(s, ch) ==
    IF s # <<>> /\ s[Len(s)] = ch THEN rstrip(SubSeq(s, 1, Len(s) - 1), ch) ELSE s

\* leaves the leading ch in place
lstrip_nothing(s, ch) == s

RECURSIVE lstrip(_, _)
lstrip(s, ch) ==
    IF s # <<>> /\ s[1] = ch THEN lstrip(Tail(s), ch) ELSE s

LowerChar(c) ==
    CASE c = "A" -> "a" [] c = "B" -> "b" [] c = "C" -> "c" [] c = "D" -> "d"
      [] c = "E" -> "e" [] c = "F" -> "f" [] c = "G" -> "g" [] c = "H" -> "h"
      [] c = "I" -> "i" [] c = "J" -> "j" [] c = "K" -> "k" [] c = "L" -> "l"
      [] c = "M" -> "m" [] c = "N" -> "n" [] c = "O" -> "o" [] c = "P" -> "p"
      [] c = "Q" -> "q" [] c = "R" -> "r" [] c = "S" -> "s" [] c = "T" -> "t"
      [] c = "U" -> "u" [] c = "V" -> "v" [] c = "W" -> "w" [] c = "X" -> "x"
      [] c = "Y" -> "y" [] c = "Z" -> "z"
      [] OTHER -> c

lower(s) == [i \in 1..Len(s) |-> LowerChar(s[i])]

----------------------------------------------------------------------------
(* Environment: os.getenv *)

getenv(e, name) == e[name]

getenv_default(e, name, default) == IF e[name] = None THEN default ELSE e[name]

----------------------------------------------------------------------------
(* SCIMClient.__init__ *)

NoClient == [none |-> TRUE]

SCIM_MEDIA_TYPE == "application/scim+json"

REQUEST_TIMEOUT == 30

\* the token without the Bearer scheme
Headers_bare_token(token) ==
    [Authorization |-> token,
     Content_Type  |-> SCIM_MEDIA_TYPE,
     Accept        |-> SCIM_MEDIA_TYPE]

Headers(token) ==
    [Authorization |-> <<"Bearer ">> \o token,
     Content_Type  |-> SCIM_MEDIA_TYPE,
     Accept        |-> SCIM_MEDIA_TYPE]

\* a flag that compares DEBUG as it is written
DebugFlag_case_sensitive(e) ==
    getenv_default(e, "DEBUG", <<"f", "a", "l", "s", "e">>)
        \in {<<"t", "r", "u", "e">>, <<"1">>, <<"y", "e", "s">>}

DebugFlag(e) ==
    lower(getenv_default(e, "DEBUG", <<"f", "a", "l", "s", "e">>))
        \in {<<"t", "r", "u", "e">>, <<"1">>, <<"y", "e", "s">>}

Raise(exc, msg) == [exc |-> exc, msg |-> msg, kind |-> "raise"]

Return(v) == [kind |-> "return", value |-> v]

SCIMClient_init(e, base_url, token) ==
    LET b == Or(base_url, getenv(e, "SCIM_BASE_URL"))
        t == Or(token, getenv(e, "SCIM_TOKEN"))
    IN  IF ~Truthy(b)
        THEN Raise("ValueError", <<"SCIM base URL must be provided via parameter or SCIM_BASE_URL environment variable">>)
        ELSE IF ~Truthy(t)
        THEN Raise("ValueError", <<"SCIM token must be provided via parameter or SCIM_TOKEN environment variable">>)
        ELSE Return([token    |-> t,
                     base_url |-> rstrip(b, Slash),
                     headers  |-> Headers(t),
                     debug    |-> DebugFlag(e)])

----------------------------------------------------------------------------
(* The HTTP transport (requests.request) and what it answers *)

StatusCodes == {200, 399, 400, 404}

JSON_BODY == "{\"id\": \"123\"}"

TEXT_BODY == "Internal Server Error"

Bodies == {JSON_BODY, TEXT_BODY}

Responses ==
    [headers     : {[Content_Type |-> SCIM_MEDIA_TYPE]},
     status_code : StatusCodes,
     text        : Bodies]

TransportErrors == {[exception |-> "ConnectionError"]}

Replies == Responses \cup TransportErrors

IsResponse(reply) == "status_code" \in DOMAIN reply

\* Python values read out of a response body: a kind and the value's parts
PyStr(s) == [kind |-> "str", val |-> <<s>>]

PyDict(flat) == [kind |-> "dict", val |-> flat]

\* response.json(): the parsed body, or JSONDecodeError
response_json(response) ==
    IF response.text = JSON_BODY
    THEN Return(PyDict(<<"id", "123">>))
    ELSE Raise("JSONDecodeError", <<"Expecting value">>)

----------------------------------------------------------------------------
(* SCIMClient._log_request_response and SCIMClient._make_request *)

NoneObj == [none |-> TRUE]

\* truthiness of an Optional[dict]
TruthyObj(d) == d # NoneObj /\ d # <<>>

_log_request_response(c, method, url, payload, response) ==
    IF ~c.debug
    THEN <<>>
    ELSE <<"=== SCIM REQUEST ===", "Method", "URL", "Headers">>
         \o (IF TruthyObj(payload) THEN <<"Payload">> ELSE <<>>)
         \o <<"=== SCIM RESPONSE ===", "Status Code", "Response Headers">>
         \o (IF response_json(response).kind = "return"
             THEN <<"Response Body">>
             ELSE <<"Response Body (raw)">>)

BuildUrl(base_url, endpoint) == base_url \o <<Slash>> \o lstrip(endpoint, Slash)

HttpRequest(c, method, endpoint, payload) ==
    [headers |-> c.headers,
     method  |-> method,
     url     |-> BuildUrl(c.base_url, endpoint),
     json    |-> payload,
     timeout |-> REQUEST_TIMEOUT]

\* a _make_request that raises on 4xx/5xx as response.raise_for_status() would
_make_request_raise_for_status(c, method, endpoint, payload, reply) ==
    LET req == HttpRequest(c, method, endpoint, payload)
    IN  IF IsResponse(reply) /\ reply.status_code < 400
        THEN [sent   |-> <<req>>,
              log    |-> _log_request_response(c, method, req.url, payload, reply),
              result |-> Return(reply)]
        ELSE [sent   |-> <<req>>,
              log    |-> <<>>,
              result |-> Raise("HTTPError", <<"transport failure">>)]

\* a _make_request that tries once more when the transport fails
_make_request_retry(c, method, endpoint, payload, reply) ==
    LET req == HttpRequest(c, method, endpoint, payload)
    IN  IF IsResponse(reply)
        THEN [sent   |-> <<req>>,
              log    |-> _log_request_response(c, method, req.url, payload, reply),
              result |-> Return(reply)]
        ELSE [sent   |-> <<req, req>>,
              log    |-> <<>>,
              result |-> Raise(reply.exception, <<"transport failure">>)]

\* a _make_request whose logging lets the decode error of the body out
_make_request_logging_raises(c, method, endpoint, payload, reply) ==
    LET req == HttpRequest(c, method, endpoint, payload)
    IN  IF IsResponse(reply)
        THEN IF c.debug /\ response_json(reply).kind = "raise"
             THEN [sent   |-> <<req>>,
                   log    |-> <<>>,
                   result |-> response_json(reply)]
             ELSE [sent   |-> <<req>>,
                   log    |-> _log_request_response(c, method, req.url, payload, reply),
                   result |-> Return(reply)]
        ELSE [sent   |-> <<req>>,
              log    |-> <<>>,
              result |-> Raise(reply.exception, <<"transport failure">>)]

\* the requests issued, the lines logged and the outcome of one _make_request
_make_request(c, method, endpoint, payload, reply) ==
    LET req == HttpRequest(c, method, endpoint, payload)
    IN  IF IsResponse(reply)
        THEN [sent   |-> <<req>>,
              log    |-> _log_request_response(c, method, req.url, payload, reply),
              result |-> Return(reply)]
        ELSE [sent   |-> <<req>>,
              log    |-> <<>>,
              result |-> Raise(reply.exception, <<"transport failure">>)]

----------------------------------------------------------------------------
(* SCIMClient operations: each yields the method, endpoint and payload it   *)
(* hands to _make_request                                                   *)

\* a minimum that lets the first argument through
Min_unclamped(a, b) == a

Min(a, b) == IF a < b THEN a ELSE b

MAX_COUNT == 100

\* "&".join([f"{k}={v}" for k, v in params.items()])
RECURSIVE query_string(_)
query_string(params) ==
    IF params = <<>> THEN <<>>
    ELSE <<params[1].k, "=">> \o params[1].v
         \o (IF Len(params) > 1 THEN <<"&">> \o query_string(Tail(params)) ELSE <<>>)

\* the defaults of the signatures of get_users and get_groups
DEFAULT_START_INDEX == 1

DEFAULT_COUNT == 100

\* the value of a parameter the caller may leave out
Keyword(kwargs, name, default) ==
    IF name \in DOMAIN kwargs THEN kwargs[name] ELSE default

\* params that carry a filter entry even without a filter expression
list_params_always_filter(start_index, count, filter_expr) ==
    <<[k |-> "startIndex", v |-> <<ToString(start_index)>>],
      [k |-> "count",      v |-> <<ToString(Min(count, MAX_COUNT))>>],
      [k |-> "filter",     v |-> IF Truthy(filter_expr) THEN filter_expr ELSE <<>>]>>

list_params(start_index, count, filter_expr) ==
    <<[k |-> "startIndex", v |-> <<ToString(start_index)>>],
      [k |-> "count",      v |-> <<ToString(Min(count, MAX_COUNT))>>]>>
    \o (IF Truthy(filter_expr) THEN <<[k |-> "filter", v |-> filter_expr]>> ELSE <<>>)

get_users(start_index, count, filter_expr) ==
    [method   |-> "GET",
     payload  |-> NoneObj,
     endpoint |-> <<"Users?">> \o query_string(list_params(start_index, count, filter_expr))]

\* get_users called with the keyword arguments kwargs
get_users_kw(kwargs) ==
    get_users(Keyword(kwargs, "start_index", DEFAULT_START_INDEX),
              Keyword(kwargs, "count", DEFAULT_COUNT),
              Keyword(kwargs, "filter_expr", None))

get_user(user_id) ==
    [method |-> "GET", payload |-> NoneObj, endpoint |-> <<"Users", Slash, user_id>>]

\* string.ascii_letters + string.digits
ALPHANUMERIC ==
    <<"a", "b", "c", "d", "e", "f", "g", "h", "i", "j", "k", "l", "m",
      "n", "o", "p", "q", "r", "s", "t", "u", "v", "w", "x", "y", "z",
      "A", "B", "C", "D", "E", "F", "G", "H", "I", "J", "K", "L", "M",
      "N", "O", "P", "Q", "R", "S", "T", "U", "V", "W", "X", "Y", "Z",
      "0", "1", "2", "3", "4", "5", "6", "7", "8", "9">>

EXTERNAL_ID_LEN == 12

\* random.randint(lo, hi) and random.choice(seq): draw is the natural number
\* the state of the generator yields, and every value of the range or
\* element of the sequence is the outcome of some draw
randint(lo, hi, draw) == lo + (draw % (hi - lo + 1))

choice(seq, draw) == seq[1 + (draw % Len(seq))]

\* an external id one character short
_generate_external_id_short(rnd) ==
    [i \in 1..(EXTERNAL_ID_LEN - 1) |-> choice(ALPHANUMERIC, rnd.choices[i])]

\* ''.join(random.choices(ALPHANUMERIC, k=12)); rnd holds the draws of one call
_generate_external_id(rnd) ==
    [i \in 1..EXTERNAL_ID_LEN |-> choice(ALPHANUMERIC, rnd.choices[i])]

adjectives ==
    <<"Quick", "Happy", "Bright", "Smart", "Cool", "Fast", "Safe", "Good",
      "Blue", "Green", "Red", "Gold", "Silver", "Purple", "Orange", "Pink",
      "Bold", "Calm", "Warm", "Fresh", "Clean", "Sweet", "Sharp", "Smooth",
      "Strong", "Light", "Dark", "Soft", "Hard", "Tall", "Short", "Wide",
      "Deep", "High", "Low", "Rich", "Pure", "Fine", "Rare", "New">>

nouns ==
    <<"Cat", "Dog", "Bird", "Fish", "Star", "Moon", "Sun", "Tree",
      "Lion", "Tiger", "Bear", "Wolf", "Fox", "Hawk", "Eagle", "Dove",
      "Rose", "Lily", "Oak", "Pine", "River", "Lake", "Hill", "Rock",
      "Fire", "Wind", "Rain", "Snow", "Cloud", "Storm", "Wave", "Ocean",
      "House", "Tower", "Bridge", "Castle", "Garden", "Forest", "Valley", "Mountain">>

\* a password without the closing exclamation mark
_generate_easy_password_no_mark(rnd) ==
    <<choice(adjectives, rnd.adjective), choice(nouns, rnd.noun),
      ToString(randint(100000, 999999, rnd.number))>>

\* f"{adjective}{noun}{number}!"
_generate_easy_password(rnd) ==
    <<choice(adjectives, rnd.adjective), choice(nouns, rnd.noun),
      ToString(randint(100000, 999999, rnd.number)), "!">>

USER_SCHEMA == "urn:ietf:params:scim:schemas:core:2.0:User"

GROUP_SCHEMA == "urn:ietf:params:scim:schemas:core:2.0:Group"

PATCH_SCHEMA == "urn:ietf:params:scim:api:messages:2.0:PatchOp"

\* a create_user that generates only for None, as `if externalId is None` would
create_user_is_None(email, firstName, lastName, externalId, password, rnd) ==
    LET ext == IF externalId = None THEN _generate_external_id(rnd) ELSE externalId
        pwd == IF password = None THEN _generate_easy_password(rnd) ELSE password
    IN  [method   |-> "POST",
         payload  |-> [name       |-> [givenName |-> firstName, familyName |-> lastName],
                       externalId |-> ext,
                       password   |-> pwd,
                       schemas    |-> <<USER_SCHEMA>>,
                       userName   |-> email,
                       emails     |-> <<[value |-> email, primary |-> TRUE]>>,
                       active     |-> TRUE],
         endpoint |-> <<"Users">>]

create_user(email, firstName, lastName, externalId, password, rnd) ==
    LET ext == IF ~Truthy(externalId) THEN _generate_external_id(rnd) ELSE externalId
        pwd == IF ~Truthy(password) THEN _generate_easy_password(rnd) ELSE password
    IN  [method   |-> "POST",
         payload  |-> [name       |-> [givenName |-> firstName, familyName |-> lastName],
                       externalId |-> ext,
                       password   |-> pwd,
                       schemas    |-> <<USER_SCHEMA>>,
                       userName   |-> email,
                       emails     |-> <<[value |-> email, primary |-> TRUE]>>,
                       active     |-> TRUE],
         endpoint |-> <<"Users">>]

\* an update that puts the User schema into the body it sends
update_user_with_schemas(user_id, user_data) ==
    [method   |-> "PUT",
     payload  |-> [k \in DOMAIN user_data \cup {"schemas"} |->
                      IF k = "schemas" THEN <<USER_SCHEMA>> ELSE user_data[k]],
     endpoint |-> <<"Users", Slash, user_id>>]

update_user(user_id, user_data) ==
    [method |-> "PUT", payload |-> user_data, endpoint |-> <<"Users", Slash, user_id>>]

delete_user(user_id) ==
    [method |-> "DELETE", payload |-> NoneObj, endpoint |-> <<"Users", Slash, user_id>>]

get_groups(start_index, count, filter_expr) ==
    [method   |-> "GET",
     payload  |-> NoneObj,
     endpoint |-> <<"Groups?">> \o query_string(list_params(start_index, count, filter_expr))]

\* get_groups called with the keyword arguments kwargs
get_groups_kw(kwargs) ==
    get_groups(Keyword(kwargs, "start_index", DEFAULT_START_INDEX),
               Keyword(kwargs, "count", DEFAULT_COUNT),
               Keyword(kwargs, "filter_expr", None))

get_group(group_id) ==
    [method |-> "GET", payload |-> NoneObj, endpoint |-> <<"Groups", Slash, group_id>>]

\* a create_group whose generated id is drawn from the seven-digit numbers
create_group_seven_digits(displayName, externalId, rnd) ==
    LET ext == IF ~Truthy(externalId)
               THEN <<ToString(randint(1000000, 9999999, rnd.group_number))>>
               ELSE externalId
    IN  [method   |-> "POST",
         payload  |-> [externalId  |-> ext,
                       schemas     |-> <<GROUP_SCHEMA>>,
                       displayName |-> displayName],
         endpoint |-> <<"Groups">>]

create_group(displayName, externalId, rnd) ==
    LET ext == IF ~Truthy(externalId)
               THEN <<ToString(randint(10000000, 99999999, rnd.group_number))>>
               ELSE externalId
    IN  [method   |-> "POST",
         payload  |-> [externalId  |-> ext,
                       schemas     |-> <<GROUP_SCHEMA>>,
                       displayName |-> displayName],
         endpoint |-> <<"Groups">>]

update_group(group_id, group_data) ==
    [method |-> "PUT", payload |-> group_data, endpoint |-> <<"Groups", Slash, group_id>>]

delete_group(group_id) ==
    [method |-> "DELETE", payload |-> NoneObj, endpoint |-> <<"Groups", Slash, group_id>>]

patch_group(group_id, patch_operations) ==
    [method   |-> "PATCH",
     payload  |-> [schemas |-> <<PATCH_SCHEMA>>, Operations |-> patch_operations],
     endpoint |-> <<"Groups", Slash, group_id>>]

\* an add that spends one operation on each id
add_members_to_group_each(group_id, user_ids) ==
    patch_group(group_id,
        [i \in 1..Len(user_ids) |->
            [value |-> <<[value |-> user_ids[i]]>>, op |-> "add", path |-> <<"members">>]])

add_members_to_group(group_id, user_ids) ==
    LET members == [i \in 1..Len(user_ids) |-> [value |-> user_ids[i]]]
    IN  patch_group(group_id, <<[value |-> members, op |-> "add", path |-> <<"members">>]>>)

\* a remove that batches the ids into one operation
remove_members_from_group_batched(group_id, user_ids) ==
    LET members == [i \in 1..Len(user_ids) |-> [value |-> user_ids[i]]]
    IN  patch_group(group_id, <<[value |-> members, op |-> "remove", path |-> <<"members">>]>>)

remove_members_from_group(group_id, user_ids) ==
    patch_group(group_id,
        [i \in 1..Len(user_ids) |->
            [op |-> "remove", path |-> <<"members[value eq \"", user_ids[i], "\"]">>]])

----------------------------------------------------------------------------
(* SCIMMCPServer: the registered tools (handle_list_tools) *)

handle_list_tools ==
    [scim_list_users  |-> [properties |-> {"filter", "start_index", "count"},
                           required   |-> {}],
     scim_get_user    |-> [properties |-> {"user_id"},
                           required   |-> {"user_id"}],
     scim_create_user |-> [properties |-> {"email", "first_name", "last_name",
                                           "external_id", "password"},
                           required   |-> {"email", "first_name", "last_name"}],
     scim_update_user |-> [properties |-> {"user_id", "user_data"},
                           required   |-> {"user_id", "user_data"}],
     scim_delete_user |-> [properties |-> {"user_id"},
                           required   |-> {"user_id"}],
     scim_list_groups |-> [properties |-> {"filter", "start_index", "count"},
                           required   |-> {}],
     scim_get_group   |-> [properties |-> {"group_id"},
                           required   |-> {"group_id"}],
     scim_create_group |-> [properties |-> {"display_name", "external_id"},
                            required   |-> {"display_name"}],
     scim_update_group |-> [properties |-> {"group_id", "group_data"},
                            required   |-> {"group_id", "group_data"}],
     scim_delete_group |-> [properties |-> {"group_id"},
                            required   |-> {"group_id"}],
     scim_add_users_to_group |-> [properties |-> {"group_id", "user_ids"},
                                  required   |-> {"group_id", "user_ids"}],
     scim_remove_users_from_group |-> [properties |-> {"group_id", "user_ids"},
                                       required   |-> {"group_id", "user_ids"}]]

ToolNames == DOMAIN handle_list_tools

----------------------------------------------------------------------------
(* SCIMMCPServer._process_response *)

\* success computed with <= instead of <
_process_response_le(response) ==
    LET parsed == response_json(response)
    IN  [status_code |-> response.status_code,
         success     |-> response.status_code <= 400,
         data        |-> IF parsed.kind = "return"
                         THEN parsed.value
                         ELSE PyStr(response.text)]

\* the fallback loses the raw text
_process_response_no_text(response) ==
    LET parsed == response_json(response)
    IN  [status_code |-> response.status_code,
         success     |-> response.status_code < 400,
         data        |-> IF parsed.kind = "return"
                         THEN parsed.value
                         ELSE PyStr("")]

_process_response(response) ==
    LET parsed == response_json(response)
    IN  [status_code |-> response.status_code,
         success     |-> response.status_code < 400,
         data        |-> IF parsed.kind = "return"
                         THEN parsed.value
                         ELSE PyStr(response.text)]

----------------------------------------------------------------------------
(* SCIMMCPServer._execute_tool *)

\* arguments.get(key, default)
Get(arguments, key, default) ==
    IF key \in DOMAIN arguments THEN arguments[key] ELSE default

\* the keys a branch of _execute_tool reads as arguments[key], in the order
\* Python evaluates them
Subscripts(name) ==
    CASE name = "scim_get_user"     -> <<"user_id">>
      [] name = "scim_create_user"  -> <<"email", "first_name", "last_name">>
      [] name = "scim_update_user"  -> <<"user_id", "user_data">>
      [] name = "scim_delete_user"  -> <<"user_id">>
      [] name = "scim_get_group"    -> <<"group_id">>
      [] name = "scim_create_group" -> <<"display_name">>
      [] name = "scim_update_group" -> <<"group_id", "group_data">>
      [] name = "scim_delete_group" -> <<"group_id">>
      [] name = "scim_add_users_to_group"      -> <<"group_id", "user_ids">>
      [] name = "scim_remove_users_from_group" -> <<"group_id", "user_ids">>
      [] OTHER -> <<>>

\* the first key whose subscript raises KeyError, or "" when none does
RECURSIVE FirstKeyError(_, _)
FirstKeyError(keys, arguments) ==
    IF keys = <<>> THEN ""
    ELSE IF keys[1] \notin DOMAIN arguments THEN keys[1]
    ELSE FirstKeyError(Tail(keys), arguments)

\* a dispatch table whose scim_delete_group row calls the user deletion
ClientCall_crossed(name, arguments, rnd) ==
    CASE name = "scim_list_users" ->
            get_users(Get(arguments, "start_index", 1),
                      Get(arguments, "count", 100),
                      Get(arguments, "filter", None))
      [] name = "scim_get_user" -> get_user(arguments["user_id"])
      [] name = "scim_create_user" ->
            create_user(arguments["email"], arguments["first_name"],
                        arguments["last_name"],
                        Get(arguments, "external_id", None),
                        Get(arguments, "password", None), rnd)
      [] name = "scim_update_user" ->
            update_user(arguments["user_id"], arguments["user_data"])
      [] name = "scim_delete_user" -> delete_user(arguments["user_id"])
      [] name = "scim_list_groups" ->
            get_groups(Get(arguments, "start_index", 1),
                       Get(arguments, "count", 100),
                       Get(arguments, "filter", None))
      [] name = "scim_get_group" -> get_group(arguments["group_id"])
      [] name = "scim_create_group" ->
            create_group(arguments["display_name"],
                         Get(arguments, "external_id", None), rnd)
      [] name = "scim_update_group" ->
            update_group(arguments["group_id"], arguments["group_data"])
      [] name = "scim_delete_group" -> delete_user(arguments["group_id"])
      [] name = "scim_add_users_to_group" ->
            add_members_to_group(arguments["group_id"], arguments["user_ids"])
      [] name = "scim_remove_users_from_group" ->
            remove_members_from_group(arguments["group_id"], arguments["user_ids"])

\* the client method a branch calls, with the dispatcher's argument names
\* mapped to the client's parameters
ClientCall(name, arguments, rnd) ==
    CASE name = "scim_list_users" ->
            get_users(Get(arguments, "start_index", 1),
                      Get(arguments, "count", 100),
                      Get(arguments, "filter", None))
      [] name = "scim_get_user" -> get_user(arguments["user_id"])
      [] name = "scim_create_user" ->
            create_user(arguments["email"], arguments["first_name"],
                        arguments["last_name"],
                        Get(arguments, "external_id", None),
                        Get(arguments, "password", None), rnd)
      [] name = "scim_update_user" ->
            update_user(arguments["user_id"], arguments["user_data"])
      [] name = "scim_delete_user" -> delete_user(arguments["user_id"])
      [] name = "scim_list_groups" ->
            get_groups(Get(arguments, "start_index", 1),
                       Get(arguments, "count", 100),
                       Get(arguments, "filter", None))
      [] name = "scim_get_group" -> get_group(arguments["group_id"])
      [] name = "scim_create_group" ->
            create_group(arguments["display_name"],
                         Get(arguments, "external_id", None), rnd)
      [] name = "scim_update_group" ->
            update_group(arguments["group_id"], arguments["group_data"])
      [] name = "scim_delete_group" -> delete_group(arguments["group_id"])
      [] name = "scim_add_users_to_group" ->
            add_members_to_group(arguments["group_id"], arguments["user_ids"])
      [] name = "scim_remove_users_from_group" ->
            remove_members_from_group(arguments["group_id"], arguments["user_ids"])

Nothing(outcome) == [sent |-> <<>>, log |-> <<>>, result |-> outcome]

_execute_tool(c, name, arguments, rnd, reply) ==
    IF name \notin ToolNames
    THEN Nothing(Raise("ValueError", <<"Unknown tool: ", name>>))
    ELSE IF FirstKeyError(Subscripts(name), arguments) # ""
    THEN Nothing(Raise("KeyError",
                       <<"'", FirstKeyError(Subscripts(name), arguments), "'">>))
    ELSE LET m == ClientCall(name, arguments, rnd)
             r == _make_request(c, m.method, m.endpoint, m.payload, reply)
         IN  IF r.result.kind = "raise"
             THEN r
             ELSE [r EXCEPT !.result = Return(_process_response(r.result.value))]

----------------------------------------------------------------------------
(* handle_call_tool *)

\* types.TextContent(type="text", text=json.dumps(envelope, indent=2)); the
\* text is kept as the envelope it serialises
TextContent(envelope) == [text |-> envelope, type |-> "text"]

ErrorEnvelope(msg, name, arguments) ==
    [arguments |-> arguments, error |-> msg, tool |-> name]

\* arguments or {}
OrEmpty(arguments) == IF TruthyObj(arguments) THEN arguments ELSE <<>>

\* the try/except of handle_call_tool, run with the client c
TryExecute(c, name, arguments, rnd, reply) ==
    LET r == _execute_tool(c, name, OrEmpty(arguments), rnd, reply)
    IN  IF r.result.kind = "raise"
        THEN [r EXCEPT !.result =
                 Return(<<TextContent(ErrorEnvelope(r.result.msg, name, arguments))>>)]
        ELSE [r EXCEPT !.result = Return(<<TextContent(r.result.value)>>)]

\* a handler that constructs a client on every call
handle_call_tool_fresh_client(e, current, name, arguments, rnd, reply) ==
    LET made == SCIMClient_init(e, None, None)
    IN  IF made.kind = "raise"
        THEN [client |-> current, did |-> Nothing(made)]
        ELSE [client |-> made.value,
              did    |-> TryExecute(made.value, name, arguments, rnd, reply)]

\* the whole handler: the client it leaves in self.client and what the call did
handle_call_tool(e, current, name, arguments, rnd, reply) ==
    IF current = NoClient
    THEN LET made == SCIMClient_init(e, None, None)
         IN  IF made.kind = "raise"
             THEN [client |-> current, did |-> Nothing(made)]
             ELSE [client |-> made.value,
                   did    |-> TryExecute(made.value, name, arguments, rnd, reply)]
    ELSE [client |-> current,
          did    |-> TryExecute(current, name, arguments, rnd, reply)]

----------------------------------------------------------------------------
(* The inputs the callers and the environment supply *)

Environments ==
    [SCIM_BASE_URL : {None, <<"e", Slash>>},
     SCIM_TOKEN    : {None, <<"s">>},
     DEBUG         : {None, <<"T", "R", "U", "E">>}]

BaseUrls == {None} \cup SeqsUpTo({"h", Slash}, MaxUrlLen)

Tokens == {None, <<>>, <<"t">>}

Endpoints == SeqsUpTo({"Users", Slash}, MaxEndpointLen)

\* method and payload of a direct _make_request
Sendings == {[method |-> "GET", payload |-> NoneObj],
             [method |-> "POST", payload |-> [userName |-> "a@x.com"]]}

\* what the transport answers in the runs that study the URL
UrlReplies == {[headers |-> [Content_Type |-> SCIM_MEDIA_TYPE],
                status_code |-> 200,
                text |-> JSON_BODY]} \cup TransportErrors

\* the arguments of the constructor in the runs that study the operations
ConfiguredBaseUrls == {None, <<"h", Slash>>}

ConfiguredTokens == {None, <<"t">>}

UserIds == {"u1"}

GroupIds == {"g1"}

StartIndexes == {1, 11}

Counts == {10, 100, 101}

Filters == {None, <<>>, <<"userName sw \"john\"">>}

ExternalIds == {None, <<>>, <<"ext-1">>}

Passwords == {None, <<>>, <<"Secret1!">>}

UserIdLists == {<<>>, <<"u1">>, <<"u1", "u2">>, <<"u1", "u1">>}

UserBodies == {[userName |-> "a@x.com"], [externalId |-> "E1", userName |-> "a@x.com"]}

GroupBodies == {[displayName |-> "Admins"],
                [displayName |-> "Admins", members |-> <<[value |-> "u1"]>>]}

\* the values of DEBUG of the runs that study the flag: every spelling of
\* the three words in upper and lower case, and values that are none of them
CaseVariants(word, upper) ==
    {s \in [1..Len(word) -> {word[i] : i \in 1..Len(word)} \cup {upper[i] : i \in 1..Len(upper)}] :
        \A i \in 1..Len(word) : s[i] \in {word[i], upper[i]}}

DebugOn ==
    CaseVariants(<<"t", "r", "u", "e">>, <<"T", "R", "U", "E">>)
    \cup CaseVariants(<<"y", "e", "s">>, <<"Y", "E", "S">>)
    \cup {<<"1">>}

DebugOff ==
    {None, <<>>, <<"f", "a", "l", "s", "e">>, <<"F", "A", "L", "S", "E">>, <<"0">>,
     <<"n", "o">>, <<"o", "n">>, <<"t">>, <<"y">>, <<"1", "1">>,
     <<" ", "t", "r", "u", "e">>, <<"t", "r", "u", "e", " ">>,
     <<"t", "r", "u", "e", "1">>}

DebugEnvironments ==
    [SCIM_BASE_URL : {<<"e", Slash>>},
     SCIM_TOKEN    : {<<"s">>},
     DEBUG         : DebugOn \cup DebugOff]

DebugEndpoints == {<<"Users">>, <<Slash, "Users">>}

\* the lists of ids of the runs that study the membership patches
MemberIdLists == SeqsUpTo({"u1", "u2"}, MaxIds)

MemberGroupIds == {"g1", "g2"}

\* the counts and start indexes of the runs that study the listings
ListCounts == (-1 .. 1) \cup (MAX_COUNT - 1 .. MaxCount)

ListStartIndexes == {0, 1, 11}

ListKeys == {"start_index", "count", "filter_expr"}

\* the keyword arguments of a listing: any of the three, or none
ListKwargs ==
    {[k \in D |-> CASE k = "start_index" -> i [] k = "count" -> n [] OTHER -> f] :
        i \in ListStartIndexes, n \in ListCounts, f \in Filters, D \in SUBSET ListKeys}

\* what the random generator draws during one call
RandomDraws ==
    {[choices |-> [i \in 1..EXTERNAL_ID_LEN |-> 0],
      adjective |-> 0, noun |-> 0, number |-> 0, group_number |-> 0],
     [choices |-> [i \in 1..EXTERNAL_ID_LEN |-> Len(ALPHANUMERIC) - 1],
      adjective |-> Len(adjectives) - 1, noun |-> Len(nouns) - 1,
      number |-> 899999, group_number |-> 89999999]}

\* the draws of the runs that study the generators: every character at every
\* position of the external id, every adjective with every noun, and the ends
\* and the inside of the two number ranges (a draw past a range wraps around)
IdStrides == {0, 1, 7}

IdDraws ==
    {[i \in 1..EXTERNAL_ID_LEN |-> k + (d * (i - 1))] :
        k \in 0..(Len(ALPHANUMERIC) - 1), d \in IdStrides}

NumberDraws == {0, 1, 23456, 899998, 899999, 900000}

GroupNumberDraws == {0, 1, 2345678, 89999998, 89999999, 90000000}

GeneratorDraws ==
    {[choices |-> c, adjective |-> 0, noun |-> 0, number |-> 0, group_number |-> 0] :
        c \in IdDraws}
    \cup
    {[choices |-> [i \in 1..EXTERNAL_ID_LEN |-> 0],
      adjective |-> a, noun |-> n, number |-> m, group_number |-> 0] :
        a \in 0..(Len(adjectives) - 1), n \in 0..(Len(nouns) - 1), m \in NumberDraws}

GroupDraws ==
    {[choices |-> [i \in 1..EXTERNAL_ID_LEN |-> 0],
      adjective |-> 0, noun |-> 0, number |-> 0, group_number |-> g] :
        g \in GroupNumberDraws}

\* the value a caller of the dispatcher gives to an argument field
ArgValue(f) ==
    CASE f = "filter"       -> <<"userName sw \"john\"">>
      [] f = "start_index"  -> 11
      [] f = "count"        -> 101
      [] f = "user_id"      -> "u1"
      [] f = "group_id"     -> "g1"
      [] f = "email"        -> "a@x.com"
      [] f = "first_name"   -> "Ann"
      [] f = "last_name"    -> "Lee"
      [] f = "external_id"  -> <<"ext-1">>
      [] f = "password"     -> <<"Secret1!">>
      [] f = "display_name" -> "Admins"
      [] f = "user_data"    -> [userName |-> "a@x.com"]
      [] f = "group_data"   -> [displayName |-> "Admins"]
      [] f = "user_ids"     -> <<"u1", "u2">>

UNKNOWN_TOOL == "scim_purge"

DispatchNames == ToolNames \cup {UNKNOWN_TOOL}

DispatchFields(name) ==
    IF name \in ToolNames THEN handle_list_tools[name].properties ELSE {"user_id"}

DispatchArguments(name) ==
    {NoneObj} \cup {[f \in D |-> ArgValue(f)] : D \in SUBSET DispatchFields(name)}

----------------------------------------------------------------------------
(* State machine *)

NoCall == [op |-> "none"]

NoResult == [kind |-> "none"]

\* no SCIM service is attached and no example program runs
NoStore == [groups |-> <<>>, users |-> <<>>]

NoProgram == <<>>

Init ==
    /\ env \in Environments
    /\ client = NoClient
    /\ server_client = NoClient
    /\ call = NoCall
    /\ sent = <<>>
    /\ log = <<>>
    /\ result = NoResult
    /\ store = NoStore
    /\ prog = NoProgram
    /\ wire = <<>>

\* client = SCIMClient(base_url, token)
Construct(base_url, token) ==
    \E made \in {SCIMClient_init(env, base_url, token)} :
        /\ client' = IF made.kind = "return" THEN made.value ELSE client
        /\ call' = [token |-> token, base_url |-> base_url, op |-> "SCIMClient"]
        /\ sent' = <<>>
        /\ log' = <<>>
        /\ result' = made
        /\ UNCHANGED <<env, server_client, store, prog, wire>>

\* a call that leaves the URL it requested in the client's base_url
Invoke_rebinds_base_url(op, args, m, reply) ==
    /\ client # NoClient
    /\ \E r \in {_make_request(client, m.method, m.endpoint, m.payload, reply)} :
           /\ sent' = r.sent
           /\ log' = r.log
           /\ result' = r.result
           /\ client' = [client EXCEPT !.base_url = r.sent[1].url]
    /\ call' = [reply |-> reply, op |-> op, args |-> args]
    /\ UNCHANGED <<env, server_client, store, prog, wire>>

\* a call of a method of the constructed client, answered by reply
Invoke(op, args, m, reply) ==
    /\ client # NoClient
    /\ \E r \in {_make_request(client, m.method, m.endpoint, m.payload, reply)} :
           /\ sent' = r.sent
           /\ log' = r.log
           /\ result' = r.result
    /\ call' = [reply |-> reply, op |-> op, args |-> args]
    /\ UNCHANGED <<env, client, server_client, store, prog, wire>>

MakeRequest(method, endpoint, payload, reply) ==
    Invoke("_make_request", <<method, endpoint, payload>>,
           [method |-> method, payload |-> payload, endpoint |-> endpoint], reply)

GetUsers(start_index, count, filter_expr, reply) ==
    Invoke("get_users", <<start_index, count, filter_expr>>,
           get_users(start_index, count, filter_expr), reply)

GetUser(user_id, reply) ==
    Invoke("get_user", <<user_id>>, get_user(user_id), reply)

CreateUser(externalId, password, rnd, reply) ==
    Invoke("create_user", <<"a@x.com", "Ann", "Lee", externalId, password>>,
           create_user("a@x.com", "Ann", "Lee", externalId, password, rnd), reply)

UpdateUser(user_id, user_data, reply) ==
    Invoke("update_user", <<user_id, user_data>>, update_user(user_id, user_data), reply)

DeleteUser(user_id, reply) ==
    Invoke("delete_user", <<user_id>>, delete_user(user_id), reply)

GetGroups(start_index, count, filter_expr, reply) ==
    Invoke("get_groups", <<start_index, count, filter_expr>>,
           get_groups(start_index, count, filter_expr), reply)

ListUsers(kwargs, reply) ==
    Invoke("get_users", kwargs, get_users_kw(kwargs), reply)

ListGroups(kwargs, reply) ==
    Invoke("get_groups", kwargs, get_groups_kw(kwargs), reply)

GetGroup(group_id, reply) ==
    Invoke("get_group", <<group_id>>, get_group(group_id), reply)

CreateGroup(externalId, rnd, reply) ==
    Invoke("create_group", <<"Admins", externalId>>,
           create_group("Admins", externalId, rnd), reply)

UpdateGroup(group_id, group_data, reply) ==
    Invoke("update_group", <<group_id, group_data>>,
           update_group(group_id, group_data), reply)

DeleteGroup(group_id, reply) ==
    Invoke("delete_group", <<group_id>>, delete_group(group_id), reply)

AddMembersToGroup(group_id, user_ids, reply) ==
    Invoke("add_members_to_group", <<group_id, user_ids>>,
           add_members_to_group(group_id, user_ids), reply)

RemoveMembersFromGroup(group_id, user_ids, reply) ==
    Invoke("remove_members_from_group", <<group_id, user_ids>>,
           remove_members_from_group(group_id, user_ids), reply)

\* one tool call arriving at the MCP server
HandleCallTool(name, arguments, rnd, reply) ==
    \E h \in {handle_call_tool(env, server_client, name, arguments, rnd, reply)} :
        /\ server_client' = h.client
        /\ sent' = h.did.sent
        /\ log' = h.did.log
        /\ result' = h.did.result
        /\ call' = [name |-> name, reply |-> IF h.did.sent # <<>> THEN reply ELSE NoneObj, op |-> "handle_call_tool",
                    arguments |-> arguments]
        /\ UNCHANGED <<env, client, store, prog, wire>>

\* construction and the shared request primitive
ConstructNext ==
    \/ \E b \in BaseUrls, t \in Tokens : Construct(b, t)
    \/ \E m \in Sendings, e \in Endpoints, reply \in UrlReplies :
          MakeRequest(m.method, e, m.payload, reply)

SpecConstruct == Init /\ [][ConstructNext]_vars

\* direct use of the client's operations
ClientNext ==
    \/ \E b \in ConfiguredBaseUrls, t \in ConfiguredTokens : Construct(b, t)
    \/ \E i \in StartIndexes, n \in Counts, f \in Filters, reply \in Replies :
          GetUsers(i, n, f, reply)
    \/ \E u \in UserIds, reply \in Replies : GetUser(u, reply)
    \/ \E x \in ExternalIds, p \in Passwords, rnd \in RandomDraws, reply \in Replies :
          CreateUser(x, p, rnd, reply)
    \/ \E u \in UserIds, d \in UserBodies, reply \in Replies : UpdateUser(u, d, reply)
    \/ \E u \in UserIds, reply \in Replies : DeleteUser(u, reply)
    \/ \E i \in StartIndexes, n \in Counts, f \in Filters, reply \in Replies :
          GetGroups(i, n, f, reply)
    \/ \E g \in GroupIds, reply \in Replies : GetGroup(g, reply)
    \/ \E x \in ExternalIds, rnd \in RandomDraws, reply \in Replies :
          CreateGroup(x, rnd, reply)
    \/ \E g \in GroupIds, d \in GroupBodies, reply \in Replies : UpdateGroup(g, d, reply)
    \/ \E g \in GroupIds, reply \in Replies : DeleteGroup(g, reply)
    \/ \E g \in GroupIds, l \in UserIdLists, reply \in Replies :
          AddMembersToGroup(g, l, reply)
    \/ \E g \in GroupIds, l \in UserIdLists, reply \in Replies :
          RemoveMembersFromGroup(g, l, reply)

InitConfigured ==
    /\ Init
    /\ env.SCIM_BASE_URL # None
    /\ env.SCIM_TOKEN # None

SpecClient == InitConfigured /\ [][ClientNext]_vars

\* the MCP server
ServerNext ==
    \E name \in DispatchNames :
        \E arguments \in DispatchArguments(name), rnd \in RandomDraws, reply \in Replies :
            HandleCallTool(name, arguments, rnd, reply)

SpecServer == Init /\ [][ServerNext]_vars

\* one answer per status code, and the failure of the transport
StatusReplies == {r \in Replies : IsResponse(r) => r.text = JSON_BODY}

\* every operation of the client once, and every tool call, side by side
RetryNext ==
    \/ Construct(None, None)
    \/ \E reply \in StatusReplies :
          \/ GetUsers(1, 100, None, reply)
          \/ GetUser("u1", reply)
          \/ \E rnd \in RandomDraws : CreateUser(None, None, rnd, reply)
          \/ UpdateUser("u1", [userName |-> "a@x.com"], reply)
          \/ DeleteUser("u1", reply)
          \/ GetGroups(1, 100, None, reply)
          \/ GetGroup("g1", reply)
          \/ \E rnd \in RandomDraws : CreateGroup(None, rnd, reply)
          \/ UpdateGroup("g1", [displayName |-> "Admins"], reply)
          \/ DeleteGroup("g1", reply)
          \/ \E l \in UserIdLists : AddMembersToGroup("g1", l, reply)
          \/ \E l \in UserIdLists : RemoveMembersFromGroup("g1", l, reply)
    \/ \E name \in DispatchNames :
          \E arguments \in DispatchArguments(name), reply \in StatusReplies :
              \E rnd \in {r \in RandomDraws : r.adjective = 0} :
                  HandleCallTool(name, arguments, rnd, reply)

SpecRetry == Init /\ [][RetryNext]_vars

\* the listings, with every combination of keyword arguments
ListNext ==
    \/ Construct(None, None)
    \/ \E kwargs \in ListKwargs, reply \in UrlReplies : ListUsers(kwargs, reply)
    \/ \E kwargs \in ListKwargs, reply \in UrlReplies : ListGroups(kwargs, reply)

SpecList == InitConfigured /\ [][ListNext]_vars

\* the membership patches
MembersNext ==
    \/ Construct(None, None)
    \/ \E g \in MemberGroupIds, l \in MemberIdLists, reply \in Replies :
          AddMembersToGroup(g, l, reply)
    \/ \E g \in MemberGroupIds, l \in MemberIdLists, reply \in Replies :
          RemoveMembersFromGroup(g, l, reply)

SpecMembers == InitConfigured /\ [][MembersNext]_vars

\* the creations, each the one call a program makes with the client it has
\* just constructed (examples/create_user_cli.py, examples/create_group_cli.py)
GenerateNext ==
    \/ Construct(None, None)
    \/ /\ call.op = "SCIMClient"
       /\ \E x \in ExternalIds, p \in Passwords, rnd \in GeneratorDraws, reply \in UrlReplies :
              CreateUser(x, p, rnd, reply)
    \/ /\ call.op = "SCIMClient"
       /\ \E x \in ExternalIds, rnd \in GroupDraws, reply \in UrlReplies :
              CreateGroup(x, rnd, reply)

SpecGenerate == InitConfigured /\ [][GenerateNext]_vars

\* the request primitive under every value of DEBUG
InitDebug ==
    /\ env \in DebugEnvironments
    /\ client = NoClient
    /\ server_client = NoClient
    /\ call = NoCall
    /\ sent = <<>>
    /\ log = <<>>
    /\ result = NoResult
    /\ store = NoStore
    /\ prog = NoProgram
    /\ wire = <<>>

DebugNext ==
    \/ Construct(None, None)
    \/ \E m \in Sendings, e \in DebugEndpoints, reply \in Replies :
          MakeRequest(m.method, e, m.payload, reply)

SpecDebug == InitDebug /\ [][DebugNext]_vars

\* the environments of a dispatcher whose configuration changes while it runs
LazyEnvironments ==
    [SCIM_BASE_URL : {None, <<"e", Slash>>, <<"f">>},
     SCIM_TOKEN    : {None, <<"s">>},
     DEBUG         : {None}]

LazyNames == {"scim_list_users", "scim_get_user", UNKNOWN_TOOL}

\* os.environ changed between two tool calls
Setenv(e) ==
    /\ e # env
    /\ env' = e
    /\ call' = [op |-> "setenv"]
    /\ sent' = <<>>
    /\ log' = <<>>
    /\ result' = NoResult
    /\ UNCHANGED <<client, server_client, store, prog, wire>>

InitLazy ==
    /\ Init
    /\ env \in LazyEnvironments

\* tool calls in any order, with the configuration changing between them
LazyNext ==
    \/ \E e \in LazyEnvironments : Setenv(e)
    \/ \E name \in LazyNames :
          \E arguments \in DispatchArguments(name), rnd \in {r \in RandomDraws : r.noun = 0},
             reply \in StatusReplies :
              HandleCallTool(name, arguments, rnd, reply)

SpecLazy == InitLazy /\ [][LazyNext]_vars

\* the constructor and the creations called with empty strings
EmptyNext ==
    \/ \E b \in {None, <<>>, <<"h", Slash>>}, t \in Tokens : Construct(b, t)
    \/ \E x \in ExternalIds, p \in Passwords, rnd \in RandomDraws, reply \in StatusReplies :
          CreateUser(x, p, rnd, reply)
    \/ \E x \in ExternalIds, rnd \in RandomDraws, reply \in StatusReplies :
          CreateGroup(x, rnd, reply)

SpecEmpty == Init /\ [][EmptyNext]_vars

----------------------------------------------------------------------------
(* Properties of the dispatcher (SpecServer) *)

Dispatched == call.op = "handle_call_tool"

NormalKeys == {"status_code", "success", "data"}

ErrorKeys == {"error", "tool", "arguments"}

\* the call returned a list of one text content holding an envelope with keys
ReturnedEnvelope(keys) ==
    /\ result.kind = "return"
    /\ Len(result.value) = 1
    /\ DOMAIN result.value[1].text = keys

Envelope == result.value[1].text

Answered == Dispatched /\ IsResponse(call.reply)

\* C1: every call of handle_call_tool, whatever the tool name, the arguments
\* and the outcome underneath (a response of any status, a transport
\* exception, a client that cannot be constructed), returns exactly one
\* result envelope, {status_code, success, data} or {error, tool, arguments},
\* and lets no exception out.
C1_AlwaysOneEnvelope ==
    Dispatched => (ReturnedEnvelope(NormalKeys) \/ ReturnedEnvelope(ErrorKeys))

\* C2: dispatching a name that is not a registered tool returns the error
\* envelope with tool equal to the name and arguments equal to the original
\* input, and issues no HTTP request.
C2_UnknownToolEnvelope ==
    (Dispatched /\ call.name \notin ToolNames) =>
        /\ ReturnedEnvelope(ErrorKeys)
        /\ Envelope.tool = call.name
        /\ Envelope.arguments = call.arguments
        /\ sent = <<>>

\* the required fields of the called tool that the arguments lack
MissingRequired ==
    IF call.name \in ToolNames
    THEN handle_list_tools[call.name].required \ DOMAIN OrEmpty(call.arguments)
    ELSE {}

\* C3: dispatching a tool with a required field missing returns an error
\* envelope whose error text names a missing field, and issues no HTTP
\* request.
C3_MissingFieldEnvelope ==
    (Dispatched /\ MissingRequired # {}) =>
        /\ ReturnedEnvelope(ErrorKeys)
        /\ \E f \in MissingRequired : Envelope.error = <<"'", f, "'">>
        /\ Envelope.tool = call.name
        /\ Envelope.arguments = call.arguments
        /\ sent = <<>>

\* C4: for every HTTP response the client hands to the dispatcher the
\* envelope is the normal one, with status_code the response status, success
\* true exactly when status_code < 400 and, for a JSON body, data the parsed
\* body; a 4xx/5xx response is no error envelope and no exception.
C4_ResponseEnvelope ==
    Answered =>
        /\ ReturnedEnvelope(NormalKeys)
        /\ Envelope.status_code = call.reply.status_code
        /\ Envelope.success = (call.reply.status_code < 400)
        /\ (call.reply.text = JSON_BODY => Envelope.data = PyDict(<<"id", "123">>))

C4_Witness ==
    /\ Answered
    /\ call.reply.status_code = 404
    /\ call.reply.text = JSON_BODY
    /\ ReturnedEnvelope(NormalKeys)
    /\ Envelope.status_code = 404
    /\ ~Envelope.success
    /\ Envelope.data.kind = "dict"

\* C5: when the response body is not valid JSON the envelope is still the
\* normal one and data is the raw response text; normalisation does not raise.
C5_RawTextFallback ==
    (Answered /\ call.reply.text # JSON_BODY) =>
        /\ ReturnedEnvelope(NormalKeys)
        /\ Envelope.data = PyStr(call.reply.text)

C5_Witness ==
    /\ Answered
    /\ call.reply.text = TEXT_BODY
    /\ ReturnedEnvelope(NormalKeys)
    /\ Envelope.data = PyStr(TEXT_BODY)

----------------------------------------------------------------------------
(* Properties of construction and of the request primitive (SpecConstruct) *)

Constructed == call.op = "SCIMClient"

\* the base URL and token a construction resolves, after the fallback
ResolvedBaseUrl == Or(call.base_url, env.SCIM_BASE_URL)

ResolvedToken == Or(call.token, env.SCIM_TOKEN)

\* C6: constructing a client whose base URL or token is still absent after
\* the fallback fails with a configuration error before any request, and no
\* client with an empty base_url or token ever issues a request.
C6_NoHalfConfiguredClient ==
    /\ (Constructed /\ (~Truthy(ResolvedBaseUrl) \/ ~Truthy(ResolvedToken))) =>
           (result.kind = "raise" /\ result.exc = "ValueError" /\ sent = <<>>)
    /\ sent # <<>> =>
           (client # NoClient /\ client.base_url # <<>> /\ client.token # <<>>)

\* the number of slashes s ends in
RECURSIVE TrailingSlashes(_)
TrailingSlashes(s) ==
    IF s # <<>> /\ s[Len(s)] = Slash
    THEN 1 + TrailingSlashes(SubSeq(s, 1, Len(s) - 1))
    ELSE 0

ConstructedOk == Constructed /\ result.kind = "return"

\* C7 as stated: exactly one trailing slash is stripped, whatever their number.
C7_StripsExactlyOne ==
    ConstructedOk =>
        result.value.base_url =
            IF TrailingSlashes(ResolvedBaseUrl) >= 1
            THEN SubSeq(ResolvedBaseUrl, 1, Len(ResolvedBaseUrl) - 1)
            ELSE ResolvedBaseUrl

\* C7 (amended): a base_url with no trailing slash is kept unchanged, and a
\* base_url ending in k >= 1 slashes is stored with all k of them removed
\* (exactly one when k = 1).
C7_StripsAllTrailing ==
    ConstructedOk =>
        /\ client = result.value
        /\ result.value.base_url =
               SubSeq(ResolvedBaseUrl, 1,
                      Len(ResolvedBaseUrl) - TrailingSlashes(ResolvedBaseUrl))

C7_Witness ==
    /\ ConstructedOk
    /\ call.base_url = <<"h", Slash, Slash>>
    /\ client.base_url = <<"h">>

Requested == call.op = "_make_request" /\ Len(sent) = 1

\* the number of slashes s starts with
RECURSIVE LeadingSlashes(_)
LeadingSlashes(s) ==
    IF s # <<>> /\ s[1] = Slash THEN 1 + LeadingSlashes(Tail(s)) ELSE 0

\* C8: the URL built by _make_request is the base URL, one slash and the
\* path, with no further slash on either side of that one, whether or not
\* the endpoint starts with a slash and whether or not the base URL was given
\* with a trailing slash; an endpoint and the same endpoint behind a slash
\* give the same URL.
C8_OneSlashBetween ==
    Requested =>
        LET url      == sent[1].url
            endpoint == call.args[2]
            path     == SubSeq(endpoint, LeadingSlashes(endpoint) + 1, Len(endpoint))
            n        == Len(client.base_url)
        IN  /\ url = client.base_url \o <<Slash>> \o path
            /\ (n > 0 => url[n] # Slash)
            /\ (Len(url) > n + 1 => url[n + 2] # Slash)
            /\ BuildUrl(client.base_url, <<Slash>> \o endpoint) = url

C8_Witness ==
    /\ Requested
    /\ env.SCIM_BASE_URL = <<"e", Slash>>
    /\ client.base_url = <<"e">>
    /\ call.args[2] = <<Slash, "Users">>
    /\ sent[1].url = <<"e", Slash, "Users">>

----------------------------------------------------------------------------
(* Properties of the client's operations (SpecClient) *)

Operated == call.op \notin {"none", "SCIMClient"}

\* C9: every request a client operation issues carries the header set fixed
\* at construction (Authorization "Bearer " and the token, Content-Type and
\* Accept application/scim+json) and a timeout of 30 seconds.
C9_FixedHeadersAndTimeout ==
    \A i \in 1..Len(sent) :
        /\ sent[i].headers = client.headers
        /\ sent[i].headers = [Authorization |-> <<"Bearer ">> \o client.token,
                              Content_Type  |-> "application/scim+json",
                              Accept        |-> "application/scim+json"]
        /\ sent[i].timeout = 30

C9_Witness ==
    /\ call.op = "create_user"
    /\ Len(sent) = 1
    /\ sent[1].headers.Authorization = <<"Bearer ", "t">>
    /\ sent[1].timeout = 30

\* C10: a client operation returns the server's response unchanged for every
\* status code, 4xx and 5xx included, and raises exactly when the transport
\* fails, the transport's exception reaching the caller.
C10_ResponseReturnedUnchanged ==
    Operated =>
        /\ IsResponse(call.reply) => result = Return(call.reply)
        /\ ~IsResponse(call.reply) =>
               (result.kind = "raise" /\ result.exc = call.reply.exception)

C10_Witness ==
    /\ call.op = "get_user"
    /\ IsResponse(call.reply)
    /\ call.reply.status_code = 404
    /\ result = Return(call.reply)

----------------------------------------------------------------------------
(* No retry (SpecRetry) *)

\* the call went through the dispatcher's lookup and its required-field
\* accesses: the handler had a client to run _execute_tool with, the name is
\* a registered tool and no subscripted argument is missing
LookupSucceeded ==
    /\ server_client # NoClient
    /\ call.name \in ToolNames
    /\ MissingRequired = {}

\* C11: no operation is retried.  Every operation of the client issues
\* exactly one HTTP request per call, whatever the status of the response
\* and also when the transport fails; a tool call of the dispatcher issues
\* at most one request, exactly one when the lookup and the required-field
\* accesses succeed and none otherwise.
C11_NoRetry ==
    /\ (Operated /\ ~Dispatched) => Len(sent) = 1
    /\ Dispatched =>
           /\ Len(sent) <= 1
           /\ (Len(sent) = 1) <=> LookupSucceeded

C11_Witness ==
    /\ Dispatched
    /\ LookupSucceeded
    /\ call.name = "scim_delete_user"
    /\ ~IsResponse(call.reply)
    /\ Len(sent) = 1
    /\ ReturnedEnvelope(ErrorKeys)

----------------------------------------------------------------------------
(* Properties of the listings (SpecList) *)

Listed == call.op \in {"get_users", "get_groups"} /\ Len(sent) = 1

\* the query of the request: what follows "Users?" or "Groups?" in the URL
Query == SubSeq(sent[1].url, Len(client.base_url) + 3, Len(sent[1].url))

\* what the caller asked for, the defaults standing for what was left out
GivenStartIndex == IF "start_index" \in DOMAIN call.args THEN call.args.start_index ELSE 1

GivenCount == IF "count" \in DOMAIN call.args THEN call.args.count ELSE 100

GivenFilter == IF "filter_expr" \in DOMAIN call.args THEN call.args.filter_expr ELSE None

DigitValue(ch) ==
    CASE ch = "0" -> 0 [] ch = "1" -> 1 [] ch = "2" -> 2 [] ch = "3" -> 3
      [] ch = "4" -> 4 [] ch = "5" -> 5 [] ch = "6" -> 6 [] ch = "7" -> 7
      [] ch = "8" -> 8 [] ch = "9" -> 9

\* the number a string of decimal digits denotes
RECURSIVE ParseNat(_)
ParseNat(t) ==
    IF Len(t) = 1 THEN DigitValue(t)
    ELSE 10 * ParseNat(SubSeq(t, 1, Len(t) - 1)) + DigitValue(SubSeq(t, Len(t), Len(t)))

\* the integer a decimal numeral with an optional sign denotes
ParseInt(t) ==
    IF SubSeq(t, 1, 1) = "-" THEN 0 - ParseNat(SubSeq(t, 2, Len(t))) ELSE ParseNat(t)

\* C12: for get_users and get_groups and every integer count, the count
\* parameter of the request is min(count, 100): it never exceeds 100 and is
\* exactly 100 whenever the caller asked for more; startIndex is transmitted
\* exactly as given, 1 when the caller gave none.
C12_CountClamped ==
    Listed =>
        /\ Len(Query) >= 7
        /\ SubSeq(Query, 1, 2) = <<"startIndex", "=">>
        /\ ParseInt(Query[3]) = GivenStartIndex
        /\ SubSeq(Query, 4, 6) = <<"&", "count", "=">>
        /\ ParseInt(Query[7]) = (IF GivenCount > 100 THEN 100 ELSE GivenCount)
        /\ ParseInt(Query[7]) <= 100
        /\ (Len(Query) > 7 => Query[8] = "&")

C12_Witness ==
    /\ Listed
    /\ call.op = "get_groups"
    /\ "start_index" \notin DOMAIN call.args
    /\ GivenCount = 101
    /\ SubSeq(Query, 1, 7) = <<"startIndex", "=", "1", "&", "count", "=", "100">>

\* C13: for get_users and get_groups the request carries a filter parameter
\* exactly when a filter expression is supplied, its value the expression
\* verbatim; without one (no argument, None or the empty string) the URL
\* has no filter parameter at all, not even an empty one.
C13_FilterVerbatimOrAbsent ==
    Listed =>
        IF GivenFilter # None /\ GivenFilter # <<>>
        THEN SubSeq(Query, 8, Len(Query)) = <<"&", "filter", "=">> \o GivenFilter
        ELSE /\ Len(Query) = 7
             /\ \A i \in 1..Len(sent[1].url) : sent[1].url[i] # "filter"

C13_Witness ==
    /\ Listed
    /\ call.op = "get_users"
    /\ GivenFilter = <<"userName sw \"john\"">>
    /\ sent[1].url[Len(sent[1].url)] = "userName sw \"john\""
    /\ sent[1].url[Len(sent[1].url) - 2] = "filter"

----------------------------------------------------------------------------
(* Properties of the membership patches (SpecMembers) *)

\* the one request of the call is a PATCH of the group the call names, with
\* the PatchOp schema
PatchesGroup ==
    /\ Len(sent) = 1
    /\ sent[1].method = "PATCH"
    /\ sent[1].url = client.base_url \o <<"/", "Groups", "/", call.args[1]>>
    /\ DOMAIN sent[1].json = {"schemas", "Operations"}
    /\ sent[1].json.schemas = <<"urn:ietf:params:scim:api:messages:2.0:PatchOp">>

\* C14: remove_members_from_group(group_id, ids), for any list ids (the
\* empty list and lists with repeated ids included), issues one PATCH
\* Groups/{group_id} whose Operations has exactly len(ids) entries, the i-th
\* being {op: "remove", path: members[value eq "<ids[i]>"]} with no value
\* field, in input order; the ids are never batched into one operation.
C14_RemoveOnePerId ==
    call.op = "remove_members_from_group" =>
        /\ PatchesGroup
        /\ Len(sent[1].json.Operations) = Len(call.args[2])
        /\ \A i \in 1..Len(call.args[2]) :
              /\ DOMAIN sent[1].json.Operations[i] = {"op", "path"}
              /\ sent[1].json.Operations[i].op = "remove"
              /\ sent[1].json.Operations[i].path =
                     <<"members[value eq \"", call.args[2][i], "\"]">>

C14_Witness ==
    /\ call.op = "remove_members_from_group"
    /\ call.args[2] = <<"u2", "u1", "u2">>
    /\ Len(sent) = 1
    /\ Len(sent[1].json.Operations) = 3
    /\ sent[1].json.Operations[1] = sent[1].json.Operations[3]
    /\ sent[1].json.Operations[2].path = <<"members[value eq \"", "u1", "\"]">>

\* C15: add_members_to_group(group_id, ids), for any list ids, issues one
\* PATCH Groups/{group_id} whose Operations has exactly one entry
\* {op: "add", path: "members", value: [{value: id} for each id in input
\* order]}; with an empty list it still issues that request, with an empty
\* value list, and does not fail.
C15_AddOneOperation ==
    call.op = "add_members_to_group" =>
        /\ PatchesGroup
        /\ Len(sent[1].json.Operations) = 1
        /\ DOMAIN sent[1].json.Operations[1] = {"op", "path", "value"}
        /\ sent[1].json.Operations[1].op = "add"
        /\ sent[1].json.Operations[1].path = <<"members">>
        /\ Len(sent[1].json.Operations[1].value) = Len(call.args[2])
        /\ \A i \in 1..Len(call.args[2]) :
              /\ DOMAIN sent[1].json.Operations[1].value[i] = {"value"}
              /\ sent[1].json.Operations[1].value[i].value = call.args[2][i]
        /\ (IsResponse(call.reply) => result = Return(call.reply))

C15_Witness ==
    /\ call.op = "add_members_to_group"
    /\ call.args[2] = <<>>
    /\ Len(sent) = 1
    /\ sent[1].method = "PATCH"
    /\ sent[1].json.Operations[1].value = <<>>
    /\ result.kind = "return"

----------------------------------------------------------------------------
(* Properties of the creations and their generators (SpecGenerate) *)

\* the text that a sequence of chunks spells
RECURSIVE Text(_)
Text(s) == IF s = <<>> THEN "" ELSE s[1] \o Text(Tail(s))

\* the characters of a text
Chars(t) == {SubSeq(t, i, i) : i \in 1..Len(t)}

LETTERS ==
    {"a", "b", "c", "d", "e", "f", "g", "h", "i", "j", "k", "l", "m",
     "n", "o", "p", "q", "r", "s", "t", "u", "v", "w", "x", "y", "z",
     "A", "B", "C", "D", "E", "F", "G", "H", "I", "J", "K", "L", "M",
     "N", "O", "P", "Q", "R", "S", "T", "U", "V", "W", "X", "Y", "Z"}

DIGITS == {"0", "1", "2", "3", "4", "5", "6", "7", "8", "9"}

\* the one request of the call is a POST to the collection
PostsTo(collection) ==
    /\ Len(sent) = 1
    /\ sent[1].method = "POST"
    /\ sent[1].url = client.base_url \o <<"/", collection>>

\* C16: create_user called without externalId POSTs to Users a payload
\* whose externalId is exactly 12 characters long, every one of them in
\* [A-Za-z0-9]; called with an externalId (and a password) it sends the
\* supplied values unchanged.
C16_ExternalIdTwelveAlnum ==
    call.op = "create_user" =>
        /\ PostsTo("Users")
        /\ call.args[4] = None =>
               /\ Len(Text(sent[1].json.externalId)) = 12
               /\ Chars(Text(sent[1].json.externalId)) \subseteq (LETTERS \cup DIGITS)
        /\ (call.args[4] # None /\ call.args[4] # <<>>) =>
               sent[1].json.externalId = call.args[4]
        /\ (call.args[5] # None /\ call.args[5] # <<>>) =>
               sent[1].json.password = call.args[5]

C16_Witness ==
    /\ call.op = "create_user"
    /\ call.args[4] = None
    /\ PostsTo("Users")
    /\ Text(sent[1].json.externalId) = "Z6dkryFMT07e"

\* C17: create_user called without password sends a generated password
\* that, for every adjective, noun and number the generator can choose, is
\* longer than 6 characters, ends in '!' and contains at least one letter
\* and at least one digit.
C17_PasswordShape ==
    (call.op = "create_user" /\ call.args[5] = None) =>
        /\ PostsTo("Users")
        /\ LET t == Text(sent[1].json.password)
           IN  /\ Len(t) > 6
               /\ SubSeq(t, Len(t), Len(t)) = "!"
               /\ Chars(t) \cap LETTERS # {}
               /\ Chars(t) \cap DIGITS # {}

C17_Witness ==
    /\ call.op = "create_user"
    /\ call.args[5] = None
    /\ PostsTo("Users")
    /\ Text(sent[1].json.password) = "NewMountain999999!"

\* C18: create_group called without externalId POSTs to Groups a payload
\* {schemas, displayName, externalId} whose externalId is a string of
\* exactly 8 decimal digits with value in [10000000, 99999999]; called with
\* an externalId it sends that value unchanged.
C18_GroupIdEightDigits ==
    call.op = "create_group" =>
        /\ PostsTo("Groups")
        /\ DOMAIN sent[1].json = {"schemas", "displayName", "externalId"}
        /\ sent[1].json.schemas = <<"urn:ietf:params:scim:schemas:core:2.0:Group">>
        /\ sent[1].json.displayName = call.args[1]
        /\ call.args[2] = None =>
               LET t == Text(sent[1].json.externalId)
               IN  /\ Len(t) = 8
                   /\ Chars(t) \subseteq DIGITS
                   /\ ParseNat(t) >= 10000000
                   /\ ParseNat(t) <= 99999999
        /\ (call.args[2] # None /\ call.args[2] # <<>>) =>
               sent[1].json.externalId = call.args[2]

C18_Witness ==
    /\ call.op = "create_group"
    /\ call.args[2] = None
    /\ PostsTo("Groups")
    /\ sent[1].json.externalId = <<"99999999">>

----------------------------------------------------------------------------
(* Properties of the replacements (SpecClient) *)

\* C19: update_user(id, body) and update_group(id, body) issue PUT
\* Users/{id} and PUT Groups/{id} whose JSON body is exactly the body the
\* caller supplied: the client adds, removes and changes no field (it does
\* not inject or preserve externalId, schemas or members), even when the
\* body omits them.
C19_BodySentVerbatim ==
    /\ call.op = "update_user" =>
           /\ Len(sent) = 1
           /\ sent[1].method = "PUT"
           /\ sent[1].url = client.base_url \o <<"/", "Users", "/", call.args[1]>>
           /\ DOMAIN sent[1].json = DOMAIN call.args[2]
           /\ sent[1].json = call.args[2]
    /\ call.op = "update_group" =>
           /\ Len(sent) = 1
           /\ sent[1].method = "PUT"
           /\ sent[1].url = client.base_url \o <<"/", "Groups", "/", call.args[1]>>
           /\ DOMAIN sent[1].json = DOMAIN call.args[2]
           /\ sent[1].json = call.args[2]

C19_Witness ==
    /\ call.op = "update_user"
    /\ DOMAIN call.args[2] = {"userName"}
    /\ Len(sent) = 1
    /\ sent[1].method = "PUT"
    /\ DOMAIN sent[1].json = {"userName"}

----------------------------------------------------------------------------
(* The HTTP surface of the tools (SpecServer) *)

UserTools ==
    {"scim_list_users", "scim_get_user", "scim_create_user", "scim_update_user",
     "scim_delete_user"}

\* the method of a tool's row in the table of the HTTP surface
SurfaceMethod(name) ==
    CASE name \in {"scim_list_users", "scim_get_user",
                   "scim_list_groups", "scim_get_group"}       -> "GET"
      [] name \in {"scim_create_user", "scim_create_group"}    -> "POST"
      [] name \in {"scim_update_user", "scim_update_group"}    -> "PUT"
      [] name \in {"scim_delete_user", "scim_delete_group"}    -> "DELETE"
      [] name \in {"scim_add_users_to_group",
                   "scim_remove_users_from_group"}             -> "PATCH"

\* the collection a tool's name says
SurfaceCollection(name) == IF name \in UserTools THEN "Users" ELSE "Groups"

\* the arguments of the tool call, {} for none
CallArguments == IF call.arguments = NoneObj THEN <<>> ELSE call.arguments

\* the path of the request: what follows the base URL and its slash
SentPath ==
    SubSeq(sent[1].url, Len(server_client.base_url) + 2, Len(sent[1].url))

\* the id argument of a tool that addresses one resource
IdArgument == IF call.name \in UserTools THEN "user_id" ELSE "group_id"

\* the path and the body a tool's row and its argument mapping prescribe
SurfaceOfList ==
    /\ SentPath[1] = SurfaceCollection(call.name) \o "?"
    /\ SubSeq(SentPath, 2, 3) = <<"startIndex", "=">>
    /\ ParseInt(SentPath[4]) =
           (IF "start_index" \in DOMAIN CallArguments
            THEN CallArguments.start_index ELSE 1)
    /\ SubSeq(SentPath, 5, 7) = <<"&", "count", "=">>
    /\ ParseInt(SentPath[8]) =
           (IF "count" \in DOMAIN CallArguments
            THEN (IF CallArguments.count > 100 THEN 100 ELSE CallArguments.count)
            ELSE 100)
    /\ SubSeq(SentPath, 9, Len(SentPath)) =
           (IF "filter" \in DOMAIN CallArguments
            THEN <<"&", "filter", "=">> \o CallArguments.filter ELSE <<>>)
    /\ sent[1].json = NoneObj

SurfaceOfOne ==
    /\ SentPath = <<SurfaceCollection(call.name), "/", CallArguments[IdArgument]>>
    /\ call.name \in {"scim_get_user", "scim_get_group",
                      "scim_delete_user", "scim_delete_group"} =>
           sent[1].json = NoneObj
    /\ call.name = "scim_update_user" => sent[1].json = CallArguments.user_data
    /\ call.name = "scim_update_group" => sent[1].json = CallArguments.group_data
    /\ call.name = "scim_add_users_to_group" =>
           /\ Len(sent[1].json.Operations) = 1
           /\ sent[1].json.Operations[1].op = "add"
           /\ sent[1].json.Operations[1].value =
                  [i \in 1..Len(CallArguments.user_ids) |->
                      [value |-> CallArguments.user_ids[i]]]
    /\ call.name = "scim_remove_users_from_group" =>
           /\ Len(sent[1].json.Operations) = Len(CallArguments.user_ids)
           /\ \A i \in 1..Len(CallArguments.user_ids) :
                  /\ sent[1].json.Operations[i].op = "remove"
                  /\ sent[1].json.Operations[i].path =
                         <<"members[value eq \"", CallArguments.user_ids[i], "\"]">>

SurfaceOfCreate ==
    /\ SentPath = <<SurfaceCollection(call.name)>>
    /\ call.name = "scim_create_user" =>
           /\ sent[1].json.userName = CallArguments.email
           /\ sent[1].json.emails = <<[value |-> CallArguments.email, primary |-> TRUE]>>
           /\ sent[1].json.name.givenName = CallArguments.first_name
           /\ sent[1].json.name.familyName = CallArguments.last_name
           /\ "external_id" \in DOMAIN CallArguments =>
                  sent[1].json.externalId = CallArguments.external_id
           /\ "password" \in DOMAIN CallArguments =>
                  sent[1].json.password = CallArguments.password
    /\ call.name = "scim_create_group" =>
           /\ sent[1].json.displayName = CallArguments.display_name
           /\ "external_id" \in DOMAIN CallArguments =>
                  sent[1].json.externalId = CallArguments.external_id

\* C20: each of the 12 tools of the dispatcher issues the method and the
\* path of its row in the table of the HTTP surface, the arguments of the
\* tool mapped to the parameters of the client: list -> GET Users|Groups
\* with the query, get -> GET Users|Groups/{id} with no query parameter,
\* create -> POST Users|Groups, update -> PUT Users|Groups/{id}, delete ->
\* DELETE Users|Groups/{id} with no body, add/remove members -> PATCH
\* Groups/{id}; no tool reaches another collection or method than its name
\* says.
C20_ToolsFollowSurface ==
    (Dispatched /\ sent # <<>>) =>
        /\ call.name \in ToolNames
        /\ Len(sent) = 1
        /\ sent[1].method = SurfaceMethod(call.name)
        /\ SubSeq(sent[1].url, 1, Len(server_client.base_url) + 1) =
               server_client.base_url \o <<"/">>
        /\ IF call.name \in {"scim_list_users", "scim_list_groups"}
           THEN SurfaceOfList
           ELSE IF call.name \in {"scim_create_user", "scim_create_group"}
           THEN SurfaceOfCreate
           ELSE SurfaceOfOne

C20_Witness ==
    /\ Dispatched
    /\ call.name = "scim_delete_group"
    /\ Len(sent) = 1
    /\ sent[1].method = "DELETE"
    /\ sent[1].url = <<"e", "/", "Groups", "/", "g1">>
    /\ sent[1].json = NoneObj

----------------------------------------------------------------------------
(* Properties of the debug flag and of the logging (SpecDebug) *)

\* the same client with the debug flag the other way round
Twin == [client EXCEPT !.debug = ~client.debug]

\* C21: debug logging does not interfere.  For the same method, endpoint,
\* payload and server response, _make_request with debug on issues the same
\* request and returns the same response as with debug off, and never raises
\* because of logging, also when the body of the response is not valid JSON
\* (it is then logged as raw text); with debug off nothing is logged.
C21_LoggingDoesNotInterfere ==
    (call.op = "_make_request" /\ IsResponse(call.reply)) =>
        /\ sent = _make_request(Twin, call.args[1], call.args[2], call.args[3],
                                call.reply).sent
        /\ result = _make_request(Twin, call.args[1], call.args[2], call.args[3],
                                  call.reply).result
        /\ result = Return(call.reply)
        /\ ~client.debug => log = <<>>
        /\ client.debug =>
               /\ log # <<>>
               /\ (call.reply.text # JSON_BODY) <=>
                      (log[Len(log)] = "Response Body (raw)")

C21_Witness ==
    /\ call.op = "_make_request"
    /\ IsResponse(call.reply)
    /\ client.debug
    /\ call.reply.text = TEXT_BODY
    /\ log[Len(log)] = "Response Body (raw)"
    /\ result = Return(call.reply)

\* C24: the debug flag of the client is true exactly when the DEBUG
\* configuration value, compared without regard to case, is one of "true",
\* "1" or "yes"; for every other value, the empty string or absence it is
\* false.
C24_DebugFlagParsing ==
    ConstructedOk =>
        client.debug =
            (\/ env.DEBUG \in CaseVariants(<<"t", "r", "u", "e">>, <<"T", "R", "U", "E">>)
             \/ env.DEBUG \in CaseVariants(<<"y", "e", "s">>, <<"Y", "E", "S">>)
             \/ env.DEBUG = <<"1">>)

C24_Witness ==
    /\ ConstructedOk
    /\ env.DEBUG = <<"Y", "e", "S">>
    /\ client.debug

----------------------------------------------------------------------------
(* The client between calls (SpecClient) *)

\* what an operation hands to _make_request, from its own arguments and the
\* draws of the generators alone
OwnCall(op, args, rnd) ==
    CASE op = "get_users"    -> get_users(args[1], args[2], args[3])
      [] op = "get_user"     -> get_user(args[1])
      [] op = "create_user"  -> create_user(args[1], args[2], args[3], args[4], args[5], rnd)
      [] op = "update_user"  -> update_user(args[1], args[2])
      [] op = "delete_user"  -> delete_user(args[1])
      [] op = "get_groups"   -> get_groups(args[1], args[2], args[3])
      [] op = "get_group"    -> get_group(args[1])
      [] op = "create_group" -> create_group(args[1], args[2], rnd)
      [] op = "update_group" -> update_group(args[1], args[2])
      [] op = "delete_group" -> delete_group(args[1])
      [] op = "add_members_to_group"      -> add_members_to_group(args[1], args[2])
      [] op = "remove_members_from_group" -> remove_members_from_group(args[1], args[2])

\* C22: after any sequence of client operations (successful, answered with
\* an HTTP error or failed in transport) the client's base_url, token and
\* header set equal their values at construction: no operation changes
\* them, and the request a call builds depends only on the arguments of that
\* call and on the configuration fixed at construction, never on earlier
\* calls.
C22_ClientUnchangedByCalls ==
    [][(call'.op \notin {"none", "SCIMClient"}) =>
           /\ client'.base_url = client.base_url
           /\ client'.token = client.token
           /\ client'.headers = client.headers
           /\ client' = client
           /\ \E rnd \in RandomDraws :
                  \E own \in {OwnCall(call'.op, call'.args, rnd)} :
                      sent' = <<[headers |-> client.headers,
                                 method  |-> own.method,
                                 url     |-> client.base_url \o <<"/">> \o own.endpoint,
                                 json    |-> own.payload,
                                 timeout |-> 30]>>]_vars

C22_Witness ==
    /\ call.op = "delete_group"
    /\ ~IsResponse(call.reply)
    /\ result.kind = "raise"
    /\ env.SCIM_TOKEN = <<"s">>
    /\ client.base_url = <<"h">>
    /\ client.token = <<"s">>
    /\ client.headers.Authorization = <<"Bearer ", "s">>

----------------------------------------------------------------------------
(* The example programs and the SCIM service they run against *)

\* the most users the service holds
MaxUsers == 22

\* what an answer of the service carries: response.status_code and the
\* value of response.json()
Answer(status, body) == [status_code |-> status, body |-> body]

\* the resources a list request finds: those its filter expression names
Matches(resource, filter_expr) ==
    \/ ~Truthy(filter_expr)
    \/ /\ Len(filter_expr) = 3
       /\ filter_expr[1] = "emails.value eq \""
       /\ "userName" \in DOMAIN resource
       /\ resource.userName = filter_expr[2]
    \/ /\ Len(filter_expr) = 3
       /\ filter_expr[1] = "displayName eq \""
       /\ "displayName" \in DOMAIN resource
       /\ resource.displayName = filter_expr[2]

Select(resources, filter_expr) ==
    SelectSeq(resources, LAMBDA r : Matches(r, filter_expr))

\* the value of the query parameter name in the query q, None without it
QueryValue(q, name) ==
    LET at == {i \in 1..Len(q) : q[i] = name /\ i < Len(q) /\ q[i + 1] = "="
                                 /\ (i = 1 \/ q[i - 1] = "&")}
    IN  IF at = {} THEN None
        ELSE LET i == CHOOSE j \in at : \A k \in at : j <= k
             IN  IF name = "filter" THEN SubSeq(q, i + 2, Len(q)) ELSE <<q[i + 2]>>

\* a ListResponse: the page of the matching resources that startIndex and
\* count select, with the number of matching resources as totalResults
ListResponse(resources, q) ==
    LET found == Select(resources, QueryValue(q, "filter"))
        given == ParseInt(QueryValue(q, "startIndex")[1])
        first == IF given < 1 THEN 1 ELSE given
        count == ParseInt(QueryValue(q, "count")[1])
        last  == Min(first + count - 1, Len(found))
    IN  [Resources    |-> IF first > last THEN <<>> ELSE SubSeq(found, first, last),
         totalResults |-> Len(found)]

\* the index of the resource with this id, 0 if there is none
IndexOf(resources, id) ==
    IF \E i \in 1..Len(resources) : resources[i].id = id
    THEN CHOOSE i \in 1..Len(resources) : resources[i].id = id
    ELSE 0

Without(resources, i) ==
    SubSeq(resources, 1, i - 1) \o SubSeq(resources, i + 1, Len(resources))

\* the resource a PUT stores: the body it carried under the resource's id
Stored(id, body) ==
    [k \in DOMAIN body \cup {"id"} |-> IF k = "id" THEN id ELSE body[k]]

\* the service handling the request req of the client c: the store it
\* leaves and the answer it gives
Serve(st, c, req) ==
    LET path == SubSeq(req.url, Len(c.base_url) + 2, Len(req.url))
        kind == <<req.method, path[1], Len(path)>>
        id   == path[Len(path)]
        u    == IndexOf(st.users, id)
        g    == IndexOf(st.groups, id)
    IN  CASE req.method = "GET" /\ path[1] = "Users?" ->
                 [store |-> st, answer |-> Answer(200, ListResponse(st.users, Tail(path)))]
          [] req.method = "GET" /\ path[1] = "Groups?" ->
                 [store |-> st, answer |-> Answer(200, ListResponse(st.groups, Tail(path)))]
          [] kind = <<"GET", "Users", 3>> ->
                 [store  |-> st,
                  answer |-> IF u = 0 THEN Answer(404, NoneObj) ELSE Answer(200, st.users[u])]
          [] kind = <<"DELETE", "Users", 3>> ->
                 [store  |-> IF u = 0 THEN st ELSE [st EXCEPT !.users = Without(st.users, u)],
                  answer |-> Answer(IF u = 0 THEN 404 ELSE 204, NoneObj)]
          [] kind = <<"PUT", "Groups", 3>> ->
                 IF g = 0 THEN [store |-> st, answer |-> Answer(404, NoneObj)]
                 ELSE [store  |-> [st EXCEPT !.groups[g] = Stored(id, req.json)],
                       answer |-> Answer(200, Stored(id, req.json))]
          [] OTHER -> [store |-> st, answer |-> Answer(400, NoneObj)]

\* the service out of order: it answers 500 and changes nothing
Unavailable(st) == [store |-> st, answer |-> Answer(500, NoneObj)]

\* one exchange of a program with the service, which is in order or not
Exchange(st, c, m, in_order) ==
    LET req == HttpRequest(c, m.method, m.endpoint, m.payload)
    IN  IF in_order THEN Serve(st, c, req) ELSE Unavailable(st)

\* what the exchange leaves on the wire
Wired(p, c, m, answer) ==
    [status_code |-> answer.status_code,
     request |-> HttpRequest(c, m.method, m.endpoint, m.payload), caller |-> p]

\* the users the service holds in the runs of the pagination example
UserOf(n) == [userName |-> "u" \o ToString(n) \o "@x.com", id |-> "u" \o ToString(n)]

UsersUpTo(n) == [i \in 1..n |-> UserOf(i)]

\* page_size of example_list_users_with_pagination
PAGE_SIZE == 10

\* client = SCIMClient() at the start of an example program
ProgramClient == SCIMClient_init(env, None, None).value

\* the environment of a run of an example program, with no call of the
\* client or the dispatcher of its own
InitProgram ==
    /\ env \in Environments
    /\ env.SCIM_BASE_URL # None
    /\ env.SCIM_TOKEN # None
    /\ client = NoClient
    /\ server_client = NoClient
    /\ call = NoCall
    /\ sent = <<>>
    /\ log = <<>>
    /\ result = NoResult

InitPaginate ==
    /\ InitProgram
    /\ \E n \in 0..MaxUsers : store = [groups |-> <<>>, users |-> UsersUpTo(n)]
    /\ prog = <<[start_index |-> 1, pc |-> "loop", printed |-> <<>>]>>
    /\ wire = <<>>

\* one turn of the while loop of example_list_users_with_pagination
PaginateTurn(in_order) ==
    /\ prog[1].pc = "loop"
    /\ LET m == get_users(prog[1].start_index, PAGE_SIZE, None)
           x == Exchange(store, ProgramClient, m, in_order)
           data == x.answer.body
           users == data.Resources
           shown == [i \in 1..Len(users) |-> users[i].id]
       IN  /\ store' = x.store
           /\ wire' = Append(wire, Wired(1, ProgramClient, m, x.answer))
           /\ prog' = IF x.answer.status_code # 200 \/ users = <<>>
                      THEN [prog EXCEPT ![1].pc = "done"]
                      ELSE IF \/ Len(users) < PAGE_SIZE
                              \/ prog[1].start_index + Len(users) >= data.totalResults
                      THEN [prog EXCEPT ![1].pc = "done", ![1].printed = @ \o shown]
                      ELSE [prog EXCEPT ![1].start_index = @ + PAGE_SIZE,
                                        ![1].printed = @ \o shown]
    /\ UNCHANGED <<env, client, server_client, call, sent, log, result>>

PaginateNext == \E in_order \in BOOLEAN : PaginateTurn(in_order)

SpecPaginate == InitPaginate /\ [][PaginateNext]_vars

\* the loop is scheduled until it breaks
FairPaginate == SpecPaginate /\ WF_vars(PaginateNext)

\* every exchange so far was answered by the service in order
AllServed == \A i \in 1..Len(wire) : wire[i].status_code # 500

\* C26: example_list_users_with_pagination, against a service that holds N
\* users, honours startIndex and count and reports totalResults = N, has on
\* termination printed each of the N users exactly once.
C26_PrintsEachUserOnce ==
    (prog[1].pc = "done" /\ AllServed) =>
        \A i \in 1..Len(store.users) :
            Cardinality({j \in 1..Len(prog[1].printed) :
                             prog[1].printed[j] = store.users[i].id}) = 1

\* the example terminates for every N
C26_Terminates == <>(prog[1].pc = "done")

\* str.strip() of what was typed at a prompt
strip(s) == lstrip(rstrip(s, " "), " ")

\* the check for credentials of the command-line programs
HasCredentials(e) == Truthy(getenv(e, "SCIM_BASE_URL")) /\ Truthy(getenv(e, "SCIM_TOKEN"))

\* a program that returned code
Exit(p, code) == [p EXCEPT !.pc = "exit", !.code = code]

\* the answers a request of a program can meet: the service in order, the
\* service out of order, and a 200 whose body the program cannot read
Outcomes == {"served", "unavailable", "unreadable"}

Outcome(st, c, m, outcome) ==
    CASE outcome = "served" -> Exchange(st, c, m, TRUE)
      [] outcome = "unavailable" -> Exchange(st, c, m, FALSE)
      [] outcome = "unreadable" -> [store |-> st, answer |-> Answer(200, NoneObj)]

\* the command lines of delete_user_cli and what is typed at its prompt
DeleteArgs == [user_id : {"u1", "u9"}, dry_run : BOOLEAN, force : BOOLEAN]

DeleteTyped == {<<"DELETE">>, <<" ", "DELETE", " ">>, <<"delete">>, <<"y">>, <<>>}

InitDelete ==
    /\ env \in Environments
    /\ client = NoClient
    /\ server_client = NoClient
    /\ call = NoCall
    /\ sent = <<>>
    /\ log = <<>>
    /\ result = NoResult
    /\ store = [groups |-> <<>>, users |-> UsersUpTo(2)]
    /\ \E a \in DeleteArgs :
           prog = <<[args |-> a, pc |-> "start", code |-> 0, typed |-> None]>>
    /\ wire = <<>>

\* delete_user_cli up to its lookup: the check for credentials
DeleteStart ==
    /\ prog[1].pc = "start"
    /\ prog' = IF HasCredentials(env) THEN [prog EXCEPT ![1].pc = "lookup"]
               ELSE [prog EXCEPT ![1] = Exit(@, 1)]
    /\ UNCHANGED <<env, client, server_client, call, sent, log, result, store, wire>>

\* a lookup that goes on to the deletion whatever the status was
DeleteLookup_any_status(outcome) ==
    /\ prog[1].pc = "lookup"
    /\ LET m == get_user(prog[1].args.user_id)
           x == Outcome(store, ProgramClient, m, outcome)
       IN  /\ store' = x.store
           /\ wire' = Append(wire, Wired(1, ProgramClient, m, x.answer))
           /\ prog' = IF x.answer.status_code = 200 /\ x.answer.body = NoneObj
                      THEN [prog EXCEPT ![1] = Exit(@, 1)]
                      ELSE IF prog[1].args.dry_run THEN [prog EXCEPT ![1] = Exit(@, 0)]
                      ELSE IF prog[1].args.force THEN [prog EXCEPT ![1].pc = "delete"]
                      ELSE [prog EXCEPT ![1].pc = "confirm"]
    /\ UNCHANGED <<env, client, server_client, call, sent, log, result>>

\* response = client.get_user(args.user_id) and what follows it up to the
\* prompt: 404 and every other status but 200 return 1, a body that cannot
\* be shown raises and returns 1, --dry-run returns 0
DeleteLookup(outcome) ==
    /\ prog[1].pc = "lookup"
    /\ LET m == get_user(prog[1].args.user_id)
           x == Outcome(store, ProgramClient, m, outcome)
       IN  /\ store' = x.store
           /\ wire' = Append(wire, Wired(1, ProgramClient, m, x.answer))
           /\ prog' = IF x.answer.status_code # 200 \/ x.answer.body = NoneObj
                      THEN [prog EXCEPT ![1] = Exit(@, 1)]
                      ELSE IF prog[1].args.dry_run THEN [prog EXCEPT ![1] = Exit(@, 0)]
                      ELSE IF prog[1].args.force THEN [prog EXCEPT ![1].pc = "delete"]
                      ELSE [prog EXCEPT ![1].pc = "confirm"]
    /\ UNCHANGED <<env, client, server_client, call, sent, log, result>>

\* confirm = input(...).strip(); anything but DELETE cancels
DeleteConfirm(typed) ==
    /\ prog[1].pc = "confirm"
    /\ prog' = IF strip(typed) # <<"DELETE">>
               THEN [prog EXCEPT ![1] = Exit([@ EXCEPT !.typed = typed], 0)]
               ELSE [prog EXCEPT ![1].pc = "delete", ![1].typed = typed]
    /\ UNCHANGED <<env, client, server_client, call, sent, log, result, store, wire>>

\* delete_response = client.delete_user(args.user_id)
DeleteRequest(outcome) ==
    /\ prog[1].pc = "delete"
    /\ LET m == delete_user(prog[1].args.user_id)
           x == Outcome(store, ProgramClient, m, outcome)
       IN  /\ store' = x.store
           /\ wire' = Append(wire, Wired(1, ProgramClient, m, x.answer))
           /\ prog' = [prog EXCEPT ![1] = Exit(@, IF x.answer.status_code \in {200, 204}
                                                  THEN 0 ELSE 1)]
    /\ UNCHANGED <<env, client, server_client, call, sent, log, result>>

DeleteNext ==
    \/ DeleteStart
    \/ \E outcome \in Outcomes : DeleteLookup(outcome)
    \/ \E typed \in DeleteTyped : DeleteConfirm(typed)
    \/ \E outcome \in Outcomes : DeleteRequest(outcome)

SpecDelete == InitDelete /\ [][DeleteNext]_vars

\* the requests on the wire with this method
Issued(method) == {i \in 1..Len(wire) : wire[i].request.method = method}

\* the lookups that came back with 200
FoundBefore(i) ==
    {j \in 1..(i - 1) : /\ wire[j].request.method = "GET"
                        /\ wire[j].request.url = wire[i].request.url
                        /\ wire[j].status_code = 200}

\* C27: delete_user_cli issues DELETE Users/{id} only after a GET Users/{id}
\* for the same id returned 200 and either DELETE was typed at the prompt or
\* --force was given; with --dry-run, after a lookup that did not return 200
\* and after a declined confirmation no DELETE is ever issued.
C27_DeleteOnlyAfterLookupAndConsent ==
    /\ \A i \in Issued("DELETE") :
           /\ wire[i].request.url
                  = ProgramClient.base_url \o <<Slash, "Users", Slash, prog[1].args.user_id>>
           /\ FoundBefore(i) # {}
           /\ prog[1].args.force \/ strip(prog[1].typed) = <<"DELETE">>
           /\ ~prog[1].args.dry_run
    /\ (\/ prog[1].args.dry_run
        \/ \E j \in Issued("GET") : wire[j].status_code # 200
        \/ prog[1].typed # None /\ strip(prog[1].typed) # <<"DELETE">>)
           => Issued("DELETE") = {}

\* a deletion that was confirmed at the prompt with blanks around the word
C27_Witness ==
    /\ Issued("DELETE") # {}
    /\ prog[1].pc = "exit"
    /\ prog[1].code = 0
    /\ prog[1].typed = <<" ", "DELETE", " ">>
    /\ Len(store.users) = 1

\* the two callers that run add_user_to_group_cli
Callers == {1, 2}

\* the group of the runs of add_user_to_group_cli, with nobody in it or
\* with the second user
GroupOf(members) ==
    [externalId |-> "E1", schemas |-> <<GROUP_SCHEMA>>, displayName |-> "Admins",
     members |-> members, id |-> "g1",
     meta |-> [resourceType |-> "Group"]]

MemberOf(user) == [value |-> user.id, display |-> user.userName]

InitialMembers == {<<>>, <<MemberOf(UserOf(2))>>}

\* the command lines of add_user_to_group_cli and what is typed at its prompt
AddArgs ==
    [email : {"u1@x.com", "u2@x.com", "nobody@x.com"}, dry_run : BOOLEAN,
     force : BOOLEAN, group : {"Admins"}]

AddTyped == {<<"y">>, <<"Y", "E", "S">>, <<" ", "y", " ">>, <<"n">>, <<>>}

\* a caller that has not started
Idle ==
    [args |-> NoneObj, body |-> NoneObj, pc |-> "idle", code |-> 0,
     typed |-> None, user |-> NoneObj, group |-> NoneObj, after |-> FALSE]

InitAdd ==
    /\ env \in Environments
    /\ client = NoClient
    /\ server_client = NoClient
    /\ call = NoCall
    /\ sent = <<>>
    /\ log = <<>>
    /\ result = NoResult
    /\ \E members \in InitialMembers :
           store = [groups |-> <<GroupOf(members)>>, users |-> UsersUpTo(2)]
    /\ prog = [p \in Callers |-> Idle]
    /\ wire = <<>>

\* what find_user_by_email and find_group_by_name return for an answer: the
\* first resource, None for another status than 200 and for no resource
FirstFound(answer) ==
    IF answer.status_code # 200 THEN NoneObj
    ELSE IF Keyword(answer.body, "Resources", <<>>) = <<>> THEN NoneObj
    ELSE answer.body.Resources[1]

find_user_by_email(email) ==
    get_users_kw([filter_expr |-> <<"emails.value eq \"", email, "\"">>])

find_group_by_name(group_name) ==
    get_groups_kw([filter_expr |-> <<"displayName eq \"", group_name, "\"">>])

\* a membership test that looks at the members' display names
is_user_in_group_by_display(group, user_id) ==
    \E i \in 1..Len(Keyword(group, "members", <<>>)) :
        Keyword(group.members[i], "display", None) = user_id

is_user_in_group(group, user_id) ==
    \E i \in 1..Len(Keyword(group, "members", <<>>)) :
        Keyword(group.members[i], "value", None) = user_id

\* the keys of the group that the PUT body does not take over
NOT_PRESERVED == {"schemas", "id", "displayName", "members", "meta", "created", "lastModified"}

\* updated_group_data: the group read, with the user appended to its members
updated_group_data(group, user) ==
    [k \in {"schemas", "displayName", "members"} \cup (DOMAIN group \ NOT_PRESERVED) |->
        CASE k = "schemas" -> Keyword(group, "schemas", <<GROUP_SCHEMA>>)
          [] k = "displayName" -> Keyword(group, "displayName", None)
          [] k = "members" -> Keyword(group, "members", <<>>) \o <<MemberOf(user)>>
          [] OTHER -> group[k]]

\* add_user_to_group_cli up to its first request: the command line and the
\* check for credentials
AddStart(p, a) ==
    /\ prog[p].pc = "idle"
    /\ LET started == [prog[p] EXCEPT !.args = a,
                           !.after = \A q \in Callers \ {p} : prog[q].pc = "exit"]
       IN  prog' = [prog EXCEPT ![p] = IF HasCredentials(env)
                                       THEN [started EXCEPT !.pc = "find_user"]
                                       ELSE Exit(started, 1)]
    /\ UNCHANGED <<env, client, server_client, call, sent, log, result, store, wire>>

\* user = find_user_by_email(client, args.email)
AddFindUser(p, outcome) ==
    /\ prog[p].pc = "find_user"
    /\ LET m == find_user_by_email(prog[p].args.email)
           x == Outcome(store, ProgramClient, m, outcome)
           user == FirstFound(x.answer)
       IN  /\ store' = x.store
           /\ wire' = Append(wire, Wired(p, ProgramClient, m, x.answer))
           /\ prog' = [prog EXCEPT ![p] = IF user = NoneObj THEN Exit(@, 1)
                                          ELSE [@ EXCEPT !.pc = "find_group", !.user = user]]
    /\ UNCHANGED <<env, client, server_client, call, sent, log, result>>

\* group = find_group_by_name(client, args.group) and what follows it up to
\* the prompt: the membership test, the PUT body, the dry run
AddFindGroup(p, outcome) ==
    /\ prog[p].pc = "find_group"
    /\ LET m == find_group_by_name(prog[p].args.group)
           x == Outcome(store, ProgramClient, m, outcome)
           group == FirstFound(x.answer)
           found == [prog[p] EXCEPT !.group = group]
       IN  /\ store' = x.store
           /\ wire' = Append(wire, Wired(p, ProgramClient, m, x.answer))
           /\ prog' = [prog EXCEPT ![p] =
                  IF group = NoneObj THEN Exit(@, 1)
                  ELSE IF is_user_in_group(group, prog[p].user.id) THEN Exit(found, 0)
                  ELSE LET ready == [found EXCEPT
                                        !.body = updated_group_data(group, prog[p].user)]
                       IN  IF prog[p].args.dry_run THEN Exit(ready, 0)
                           ELSE IF prog[p].args.force THEN [ready EXCEPT !.pc = "put"]
                           ELSE [ready EXCEPT !.pc = "confirm"]]
    /\ UNCHANGED <<env, client, server_client, call, sent, log, result>>

\* confirm = input(...).strip().lower(); anything but y and yes cancels
AddConfirm(p, typed) ==
    /\ prog[p].pc = "confirm"
    /\ prog' = [prog EXCEPT ![p] =
                   IF lower(strip(typed)) \in {<<"y">>, <<"y", "e", "s">>}
                   THEN [@ EXCEPT !.pc = "put", !.typed = typed]
                   ELSE Exit([@ EXCEPT !.typed = typed], 0)]
    /\ UNCHANGED <<env, client, server_client, call, sent, log, result, store, wire>>

\* a PUT whose body is built from the group as the service holds it now
AddPut_rereads(p, outcome) ==
    /\ prog[p].pc = "put"
    /\ LET m == update_group(prog[p].group.id,
                             updated_group_data(store.groups[1], prog[p].user))
           x == Outcome(store, ProgramClient, m, outcome)
       IN  /\ store' = x.store
           /\ wire' = Append(wire, Wired(p, ProgramClient, m, x.answer))
           /\ prog' = [prog EXCEPT ![p] =
                          Exit(@, IF x.answer.status_code = 200 /\ x.answer.body # NoneObj
                                  THEN 0 ELSE 1)]
    /\ UNCHANGED <<env, client, server_client, call, sent, log, result>>

\* response = client.update_group(group_id, updated_group_data)
AddPut(p, outcome) ==
    /\ prog[p].pc = "put"
    /\ LET m == update_group(prog[p].group.id, prog[p].body)
           x == Outcome(store, ProgramClient, m, outcome)
       IN  /\ store' = x.store
           /\ wire' = Append(wire, Wired(p, ProgramClient, m, x.answer))
           /\ prog' = [prog EXCEPT ![p] =
                          Exit(@, IF x.answer.status_code = 200 /\ x.answer.body # NoneObj
                                  THEN 0 ELSE 1)]
    /\ UNCHANGED <<env, client, server_client, call, sent, log, result>>

AddNext ==
    \E p \in Callers :
        \/ \E a \in AddArgs : AddStart(p, a)
        \/ \E outcome \in Outcomes : AddFindUser(p, outcome)
        \/ \E outcome \in Outcomes : AddFindGroup(p, outcome)
        \/ \E typed \in AddTyped : AddConfirm(p, typed)
        \/ \E outcome \in Outcomes : AddPut(p, outcome)

SpecAdd == InitAdd /\ [][AddNext]_vars

\* the exchanges about groups, in the order they happened: who asked, with
\* which method, and the status that came back
GroupExchanges ==
    LET about == SelectSeq(wire, LAMBDA w :
                     w.request.url[Len(ProgramClient.base_url) + 2] \in {"Groups?", "Groups"})
    IN  [i \in 1..Len(about) |-> <<about[i].caller, about[i].request.method,
                                   about[i].status_code>>]

\* both callers read the group before either wrote it, and both PUTs
\* returned success: GET1, GET2, PUT1, PUT2
LostUpdateOrder(p, q) ==
    /\ GroupExchanges = <<<<p, "GET", 200>>, <<q, "GET", 200>>,
                          <<p, "PUT", 200>>, <<q, "PUT", 200>>>>
    /\ prog[p].code = 0
    /\ prog[q].code = 0

\* the group lists the user as a member
HasMember(group, user_id) ==
    \E i \in 1..Len(group.members) : group.members[i].value = user_id

\* C23: writes are not serialized per resource: when two callers each read
\* the same group and then PUT their merged copy through update_group, the
\* interleaving GET1, GET2, PUT1, PUT2 ends with the member added by
\* caller 1 absent from the group although both PUTs returned success.
C23_LostUpdate ==
    \A p, q \in Callers :
        (p # q /\ LostUpdateOrder(p, q) /\ prog[p].user.id # prog[q].user.id) =>
            /\ ~HasMember(store.groups[1], prog[p].user.id)
            /\ HasMember(store.groups[1], prog[q].user.id)

\* the interleaving is reachable
C23_Witness ==
    /\ LostUpdateOrder(1, 2)
    /\ prog[1].user.id = "u1"
    /\ prog[2].user.id = "u2"
    /\ store.groups[1].members = <<MemberOf(UserOf(2))>>

\* the PUTs a caller issued
PutsOf(p) == {i \in Issued("PUT") : wire[i].caller = p}

\* the caller's run added its user with a successful PUT
Added(p) == prog[p].code = 0 /\ \E i \in PutsOf(p) : wire[i].status_code = 200

\* how often the user is among the members of the group
TimesMember(user_id) ==
    Cardinality({i \in 1..Len(store.groups[1].members) :
                     store.groups[1].members[i].value = user_id})

\* the caller's run got as far as reading the group
ReadGroup(p) == prog[p].group # NoneObj

\* C28: add_user_to_group_cli is idempotent when run sequentially: after a
\* first run that added user U to group G with a successful PUT, a second
\* run for the same U and G finds U among the members, issues no PUT, and
\* the group contains U exactly once; a run in --dry-run mode or with a
\* declined confirmation issues no PUT at all.
C28_SequentialRunsIdempotent ==
    /\ \A p, q \in Callers :
           (/\ p # q
            /\ Added(p)
            /\ prog[q].after
            /\ prog[q].args.email = prog[p].args.email) =>
               /\ PutsOf(q) = {}
               /\ TimesMember(prog[p].user.id) = 1
               /\ ReadGroup(q) => /\ HasMember(prog[q].group, prog[p].user.id)
                                  /\ prog[q].pc = "exit"
                                  /\ prog[q].code = 0
    /\ \A p \in Callers :
           (prog[p].pc # "idle" /\
               (\/ prog[p].args.dry_run
                \/ prog[p].typed # None /\ lower(strip(prog[p].typed)) \notin {<<"y">>, <<"y", "e", "s">>}))
               => PutsOf(p) = {}

\* a second run that found the user the first run had added
C28_Witness ==
    /\ Added(1)
    /\ prog[2].after
    /\ prog[2].args.email = prog[1].args.email
    /\ ReadGroup(2)
    /\ prog[2].pc = "exit"
    /\ TimesMember("u1") = 1

----------------------------------------------------------------------------
(* Further properties of the dispatcher (SpecServer) *)

ListTools == {"scim_list_users", "scim_list_groups"}

\* the path and query of the only request of the call
OnlyPath == SubSeq(sent[1].url, Len(server_client.base_url) + 2, Len(sent[1].url))

\* C25: for every tool, the argument fields whose absence makes the dispatch
\* end in an error envelope are exactly the tool's `required` list of
\* handle_list_tools: the call ends in an error envelope with no request
\* exactly when a required field is absent; scim_list_users and
\* scim_list_groups, which require none, dispatch with empty or null
\* arguments and issue GET with startIndex=1 and count=100.
C25_RequiredIsWhatDispatchNeeds ==
    (Dispatched /\ call.name \in ToolNames) =>
        /\ (MissingRequired # {}) <=> (ReturnedEnvelope(ErrorKeys) /\ sent = <<>>)
        /\ (call.name \in ListTools /\ OrEmpty(call.arguments) = <<>>) =>
               /\ Len(sent) = 1
               /\ sent[1].method = "GET"
               /\ OnlyPath = <<IF call.name = "scim_list_users" THEN "Users?" ELSE "Groups?",
                               "startIndex", "=", "1", "&", "count", "=", "100">>

----------------------------------------------------------------------------
(* Properties of the dispatcher's client (SpecLazy) *)

\* a step that is a tool call
ToolCallStep == env' = env /\ call'.op = "handle_call_tool"

\* C30: the dispatcher's client is created lazily and at most once: once a
\* tool call has constructed it, no later step replaces or resets it and
\* every later tool call, also one that ends in an error envelope, sends its
\* request with that client's base URL and headers; while construction fails
\* the client stays unset and the next tool call attempts it again.
C30_ClientCreatedOnce ==
    [][/\ (server_client # NoClient) =>
              /\ server_client' = server_client
              /\ (ToolCallStep /\ sent' # <<>>) =>
                     /\ sent'[1].headers = server_client.headers
                     /\ SubSeq(sent'[1].url, 1, Len(server_client.base_url) + 1)
                            = server_client.base_url \o <<Slash>>
       /\ (server_client = NoClient /\ ToolCallStep) =>
              \E made \in {SCIMClient_init(env, None, None)} :
                  IF made.kind = "raise"
                  THEN server_client' = NoClient /\ result' = made
                  ELSE server_client' = made.value
       /\ (server_client = NoClient /\ ~ToolCallStep) => server_client' = NoClient]_vars

\* a tool call answered through the client of an earlier call, made when the
\* environment no longer holds the configuration
C30_Witness ==
    /\ Dispatched
    /\ env.SCIM_BASE_URL = None
    /\ server_client # NoClient
    /\ sent # <<>>
    /\ sent[1].headers = server_client.headers
    /\ ReturnedEnvelope(NormalKeys)

----------------------------------------------------------------------------
(* Properties of empty strings (SpecEmpty) *)

\* the argument as the caller would have passed it by leaving it out
Omitted(v) == IF v = <<>> THEN None ELSE v

\* C29: create_user and create_group treat an empty-string externalId (and
\* create_user an empty-string password) exactly like an omitted one: the
\* payload carries a generated value, never an empty one; an empty-string
\* base_url or token passed to the constructor falls back to the environment
\* value instead of being used.
C29_EmptyStringIsOmitted ==
    /\ call.op = "create_user" =>
           /\ PostsTo("Users")
           /\ \E rnd \in RandomDraws :
                  sent[1].json = create_user(call.args[1], call.args[2], call.args[3],
                                             Omitted(call.args[4]), Omitted(call.args[5]),
                                             rnd).payload
           /\ call.args[4] = <<>> =>
                  /\ Len(Text(sent[1].json.externalId)) = EXTERNAL_ID_LEN
                  /\ Chars(Text(sent[1].json.externalId)) \subseteq (LETTERS \cup DIGITS)
           /\ call.args[5] = <<>> =>
                  /\ Len(Text(sent[1].json.password)) > 6
                  /\ sent[1].json.password[Len(sent[1].json.password)] = "!"
    /\ call.op = "create_group" =>
           /\ PostsTo("Groups")
           /\ \E rnd \in RandomDraws :
                  sent[1].json = create_group(call.args[1], Omitted(call.args[2]), rnd).payload
           /\ call.args[2] = <<>> =>
                  /\ Len(Text(sent[1].json.externalId)) = 8
                  /\ Chars(Text(sent[1].json.externalId)) \subseteq DIGITS
    /\ Constructed =>
           /\ result = SCIMClient_init(env, Omitted(call.base_url), Omitted(call.token))
           /\ (result.kind = "return" /\ call.base_url = <<>>) =>
                  /\ env.SCIM_BASE_URL # None
                  /\ client.base_url = rstrip(env.SCIM_BASE_URL, Slash)
           /\ (result.kind = "return" /\ call.token = <<>>) =>
                  /\ env.SCIM_TOKEN # None
                  /\ client.token = env.SCIM_TOKEN
           /\ (result.kind = "raise" /\ call.base_url = <<>>) => env.SCIM_BASE_URL = None \/ ~Truthy(ResolvedToken)

\* a user created with an empty external id and an empty password
C29_Witness ==
    /\ call.op = "create_user"
    /\ call.args[4] = <<>>
    /\ call.args[5] = <<>>
    /\ PostsTo("Users")
    /\ Text(sent[1].json.password) = "NewMountain999999!"

====
